---- MODULE Spec2Model ----
(***************************************************************************)
(* Speech Performance Analysis Engine (src/src/utils/analysisEngine.js and *)
(* src/src/utils/stutteringAnalyzer.js).                                   *)
(*                                                                         *)
(* Representation.                                                         *)
(*  - A JS string is a TLA+ string; an analyzer reads its characters as    *)
(*    the sequence Chars(s) of one-character strings and gives strings     *)
(*    back with Str.                                                       *)
(*  - A time is an integer number of milliseconds (the source holds        *)
(*    seconds as doubles); thresholds are scaled accordingly and every     *)
(*    division is carried out exactly, on integers.                        *)
(*  - An optional value (undefined / null in the source) is <<>> when      *)
(*    absent and <<v>> when present.                                       *)
(*  - Math.round(n/d) is Round(n, d): floor(n/d + 1/2).                    *)
(***************************************************************************)
EXTENDS Integers, Sequences, FiniteSets, TLC

(***************************************************************************)
(* Bounds of the model.                                                    *)
(***************************************************************************)
MaxFillerTokens == 3
MaxPauseWords == 6
MaxBlockWords == 4
MaxRepWords == 4
MaxVolumeSamples == 6
MaxReportPhrases == 1
MaxReportWords == 12
MaxPaceWords == 14
MaxFrameworkTokens == 3
MaxRatePhrases == 4
MaxHedgingTokens == 3
MaxAnalogyTokens == 4

(***************************************************************************)
(* JS values and built-ins.                                                *)
(***************************************************************************)
Chars(s) == SubSeq([i \in 1..Len(s) |-> SubSeq(s, i, i)], 1, Len(s))

RECURSIVE Str(_)
Str(cs) == IF cs = <<>> THEN "" ELSE Head(cs) \o Str(Tail(cs))

Undefined == <<>>

Some(v) == <<v>>

IsDefined(o) == o # <<>>

Val(o) == o[1]

\* !x for an optional string: undefined and "" are both falsy
Falsy(o) == ~IsDefined(o) \/ Val(o) = ""

\* !x for an optional array or object: only undefined / null is falsy
Missing(o) == ~IsDefined(o)

Range(s) == {s[i] : i \in 1..Len(s)}

\* const x = e; F(x): F applied to the value of e, which is computed once
Let(e, F(_)) == CHOOSE r \in {F(x) : x \in {e}} : TRUE

\* arr.map(f)
Map(arr, f(_)) == SubSeq([k \in 1..Len(arr) |-> f(arr[k])], 1, Len(arr))

\* the array [1, ..., n]
Indices(n) == SubSeq([k \in 1..n |-> k], 1, n)

LowerLetters == Chars("abcdefghijklmnopqrstuvwxyz")

UpperLetters == Chars("ABCDEFGHIJKLMNOPQRSTUVWXYZ")

Digits == Chars("0123456789")

OtherChars == Chars(".,!?;:-' _")

Alphabet == Range(LowerLetters) \cup Range(UpperLetters) \cup Range(Digits) \cup Range(OtherChars)

LowerMap == [c \in Alphabet |->
               IF c \in Range(UpperLetters)
               THEN LowerLetters[CHOOSE i \in 1..26 : UpperLetters[i] = c]
               ELSE c]

toLowerCase(s) == SubSeq([i \in 1..Len(s) |-> LowerMap[s[i]]], 1, Len(s))

\* \s of the regular expressions
IsSpace(c) == c = " "

\* [a-z] under the i flag
IsLetter(c) == c \in Range(LowerLetters) \/ c \in Range(UpperLetters)

\* \w, which decides \b
IsWordChar(c) == IsLetter(c) \/ c \in Range(Digits) \/ c = "_"

\* Math.floor(n / d)
Round_Floor(n, d) == n \div d

Round(n, d) == (2 * n + d) \div (2 * d)

Max(a, b) == IF a >= b THEN a ELSE b

Min(a, b) == IF a <= b THEN a ELSE b

\* Math.min(100, x)
Clamp_NoFloor(x) == Min(100, x)

Clamp(x) == Max(0, Min(100, x))

RECURSIVE SumSeq(_)
SumSeq(s) == IF s = <<>> THEN 0 ELSE Head(s) + SumSeq(Tail(s))

\* <<r, x - r * r>> for r = Math.floor(Math.sqrt(x)), x >= 0, digit by digit:
\* the root a of x \div 100 with remainder rem extends to the root 10a + d
\* of x, the digit d being the one that leaves a remainder in 0 .. 2(10a + d)
RECURSIVE IsqrtRem(_)
IsqrtRem(x) ==
    IF x < 100
    THEN CHOOSE p \in {<<r, x - r * r>> : r \in 0..9} : p[2] >= 0 /\ p[2] <= 2 * p[1]
    ELSE CHOOSE p \in {<<10 * q[1] + d, 100 * q[2] + (x % 100) - (20 * q[1] + d) * d>> :
                          q \in {IsqrtRem(x \div 100)}, d \in 0..9} :
             p[2] >= 0 /\ p[2] <= 2 * p[1]

Isqrt(x) == IsqrtRem(x)[1]

\* <<r, x * 100^k - r * r>> for r = Math.floor(Math.sqrt(x) * 10^k)
RECURSIVE SqrtRem(_, _)
SqrtRem(x, k) ==
    IF k = 0 THEN IsqrtRem(x)
    ELSE CHOOSE p \in {<<10 * q[1] + d, 100 * q[2] - (20 * q[1] + d) * d>> :
                          q \in {SqrtRem(x, k - 1)}, d \in 0..9} :
             p[2] >= 0 /\ p[2] <= 2 * p[1]

\* Math.floor(Math.sqrt(x) * 10^k)
FloorSqrtE(x, k) == SqrtRem(x, k)[1]

\* a number that is not one: the result of arithmetic on undefined, or of 0/0
NaN == -1000000

IsNaN(x) == x = NaN

\* s.trim()
RECURSIVE trimLeft(_)
trimLeft(s) == IF s # <<>> /\ IsSpace(Head(s)) THEN trimLeft(Tail(s)) ELSE s

RECURSIVE trimRight(_)
trimRight(s) == IF s # <<>> /\ IsSpace(s[Len(s)])
                THEN trimRight(SubSeq(s, 1, Len(s) - 1)) ELSE s

trim(s) == trimRight(trimLeft(s))

\* the least element of a non-empty set of numbers
MinOf(S) == CHOOSE x \in S : \A y \in S : x <= y

\* s.split(/[seps]+/): the pieces between maximal runs of separators, a
\* leading or trailing run giving an empty first or last piece
split(s, seps) ==
    LET n == Len(s)
        isStart(i) == s[i] \notin seps /\ (i = 1 \/ s[i - 1] \in seps)
        isEnd(i) == s[i] \notin seps /\ (i = n \/ s[i + 1] \in seps)
        leading == IF n = 0 \/ s[1] \in seps THEN << <<>> >> ELSE <<>>
        trailing == IF n > 0 /\ s[n] \in seps THEN << <<>> >> ELSE <<>>
    IN  Let(SelectSeq(Indices(n), isStart), LAMBDA starts :
        Let(SelectSeq(Indices(n), isEnd), LAMBDA ends :
            leading
            \o Map(Indices(Len(starts)), LAMBDA k : SubSeq(s, starts[k], ends[k]))
            \o trailing))

\* the start positions of the matches a regular expression with the g flag
\* finds from position i on, ends[k] being the position after the match tried
\* at k (0 when there is none): leftmost first, the search resuming where the
\* match ended
RECURSIVE matchStarts(_, _)
matchStarts(ends, i) ==
    IF \A k \in i..Len(ends) : ends[k] = 0 THEN <<>>
    ELSE Let(MinOf({k \in i..Len(ends) : ends[k] > 0}), LAMBDA m :
             <<m>> \o matchStarts(ends, ends[m]))

\* s.split(/\s+/)
splitWs(s) == split(s, {" "})

\* s.split(/[.!?]+/)
splitSentences(s) == split(s, {".", "!", "?"})

\* tokens.join(' ')
RECURSIVE join(_)
join(toks) == IF toks = <<>> THEN ""
              ELSE IF Len(toks) = 1 THEN Head(toks)
              ELSE Head(toks) \o " " \o join(Tail(toks))

Punctuation == Range(Chars(".,!?;:"))

\* w.replace(/[.,!?;:]/g, '')
stripPunctuation(w) == SelectSeq(w, LAMBDA c : c \notin Punctuation)

\* s.startsWith(p, i), positions counted from 1
StartsAt(s, p, i) == /\ i + Len(p) - 1 <= Len(s)
                     /\ \A k \in 1..Len(p) : s[i + k - 1] = p[k]

\* the number of start positions of p in s, as the indexOf(p, idx + 1) loop counts
CountOccurrences(s, p) == Cardinality({i \in 1..Len(s) : StartsAt(s, p, i)})

\* s.startsWith(p)
Includes_AtStart(s, p) == StartsAt(s, p, 1)

\* s.includes(p)
Includes(s, p) == p = <<>> \/ \E i \in 1..Len(s) : StartsAt(s, p, i)

\* the pairs left in the order they came in
SortDesc_Unsorted(s) == s

\* a stable sort of <<key, value>> pairs by descending key (Array.prototype.sort
\* with the comparator (a, b) => b.key - a.key): the element at i comes after
\* those with a greater key and those with the same key that stood before it
SortDesc(s) ==
    LET rank(i) == Cardinality({j \in 1..Len(s) :
                                   s[j][1] > s[i][1] \/ (s[j][1] = s[i][1] /\ j < i)}) + 1
    IN  Map(Indices(Len(s)), LAMBDA r : s[CHOOSE i \in 1..Len(s) : rank(i) = r])

\* the distinct elements of s in the order of their first occurrence (the key
\* order of an object filled by s)
DistinctInOrder(s) ==
    LET firsts == SelectSeq(Indices(Len(s)), LAMBDA i : \A j \in 1..(i - 1) : s[j] # s[i])
    IN  Map(firsts, LAMBDA i : s[i])

\* arr.slice(0, n)
Take(s, n) == SubSeq(s, 1, Min(n, Len(s)))

(***************************************************************************)
(* analysisEngine.js: filler words.                                        *)
(***************************************************************************)
FILLER_WORDS == << "um", "uh", "er", "ah", "like", "you know", "basically", "actually",
                   "literally", "honestly", "so", "well", "i mean", "right", "okay" >>

\* trailing punctuation only: w.replace(/[.,!?;:]+$/, '')
RECURSIVE stripTrailingPunctuation(_)
stripTrailingPunctuation(w) ==
    IF w # <<>> /\ w[Len(w)] \in Punctuation
    THEN stripTrailingPunctuation(SubSeq(w, 1, Len(w) - 1)) ELSE w

\* word.replace(/[.,!?;:]/g, ''); without the flag g and anchored at the end of
\* the word when anywhere is FALSE
cleanWordOf(word, anywhere) ==
    IF anywhere THEN stripPunctuation(word) ELSE stripTrailingPunctuation(word)

\* detectFillerWords, the punctuation stripped anywhere in a word or at its end
FillerReport(transcript, anywhere) ==
    IF Falsy(transcript)
    THEN [count |-> 0, occurrences |-> <<>>, positions |-> <<>>]
    ELSE Let(toLowerCase(Chars(Val(transcript))), LAMBDA lowerTranscript :
         Let(Map(splitWs(lowerTranscript), LAMBDA w : Str(cleanWordOf(w, anywhere))),
             LAMBDA cleanWord :
         \* the indices whose cleaned word is a filler, in forEach order
         Let(SelectSeq(Indices(Len(cleanWord)),
                       LAMBDA i : cleanWord[i] \in Range(FILLER_WORDS)), LAMBDA hits :
         LET single == DistinctInOrder(Map(hits, LAMBDA i : cleanWord[i]))
             multi == SelectSeq(FILLER_WORDS,
                                LAMBDA f : " " \in Range(Chars(f))
                                           /\ CountOccurrences(lowerTranscript, Chars(f)) > 0)
             countOf(f) ==
                 Cardinality({k \in 1..Len(hits) : cleanWord[hits[k]] = f})
                 + (IF " " \in Range(Chars(f))
                    THEN CountOccurrences(lowerTranscript, Chars(f)) ELSE 0)
         IN
         Let(SortDesc(Map(single \o multi, LAMBDA f : <<countOf(f), f>>)),
             LAMBDA occurrencesList :
             [count |-> SumSeq(Map(occurrencesList, LAMBDA x : x[1])),
              occurrences |-> Map(occurrencesList,
                                  LAMBDA x : [word |-> x[2], count |-> x[1]]),
              positions |-> Map(hits, LAMBDA i : i - 1)]))))

detectFillerWords_TrailingOnly(transcript) == FillerReport(transcript, FALSE)

detectFillerWords(transcript) == FillerReport(transcript, TRUE)

(***************************************************************************)
(* analysisEngine.js: strategic pauses.  A word is [word, start, end],     *)
(* times in milliseconds.                                                  *)
(***************************************************************************)
\* a pause recorded from the breath threshold on
PAUSE_THRESHOLDS_FromMicro == [MICRO |-> 100, SHORT |-> 100, STRATEGIC |-> 800,
                               TRANSITION |-> 2000, TOO_LONG |-> 4000]

PAUSE_THRESHOLDS == [MICRO |-> 100, SHORT |-> 300, STRATEGIC |-> 800,
                     TRANSITION |-> 2000, TOO_LONG |-> 4000]

\* the emphasis threshold taken for the section-break one
PAUSE_THRESHOLDS_Transition == [MICRO |-> 100, SHORT |-> 300, STRATEGIC |-> 2000,
                                TRANSITION |-> 2000, TOO_LONG |-> 4000]

\* words[i].start - words[i - 1].end, i counted from 1
GapBefore(ws, i) == ws[i].start - ws[i - 1].end

\* Math.round(x * 100) / 100 of a time of ms milliseconds
RoundCs(ms) == Round(ms, 10) * 10

PauseAnalysis(words, T) ==
    IF Missing(words) \/ Len(Val(words)) < 5
    THEN [totalPauses |-> 0, strategicPauses |-> 0, shortPauses |-> 0, tooLongPauses |-> 0,
          avgPauseDuration |-> 0, pauseScore |-> 50, pauseDistribution |-> <<>>,
          feedback |-> "Not enough data for pause analysis"]
    ELSE LET ws == Val(words)
             at == SelectSeq(Indices(Len(ws)),
                             LAMBDA i : i > 1 /\ GapBefore(ws, i) >= T.SHORT)
             isShort(i) == GapBefore(ws, i) < T.STRATEGIC
             isStrategic(i) == GapBefore(ws, i) >= T.STRATEGIC
                               /\ GapBefore(ws, i) < T.TOO_LONG
             isTooLong(i) == GapBefore(ws, i) >= T.TOO_LONG
             shortPauses == Cardinality({k \in 1..Len(at) : isShort(at[k])})
             strategicPauses == Cardinality({k \in 1..Len(at) : isStrategic(at[k])})
             tooLongPauses == Cardinality({k \in 1..Len(at) : isTooLong(at[k])})
             pauses == Map(at, LAMBDA i :
                          [duration |-> RoundCs(GapBefore(ws, i)),
                           afterWord |-> ws[i - 1].word,
                           beforeWord |-> ws[i].word,
                           timestamp |-> ws[i - 1].end,
                           type |-> IF isTooLong(i) THEN "long"
                                    ELSE IF isStrategic(i) THEN "strategic"
                                    ELSE "short"])
             sumDuration == SumSeq(Map(pauses, LAMBDA p : p.duration))
             \* strategicRatio > 0.05 and > 0.15, strategicRatio = strategicPauses / length
             score0 == 70
             score1 == IF 100 * strategicPauses > 5 * Len(ws) THEN score0 + 15 ELSE score0
             score2 == IF 100 * strategicPauses > 15 * Len(ws) THEN score1 - 5 ELSE score1
             score3 == score2 - tooLongPauses * 10
             score4 == IF Len(pauses) = 0 THEN 30 ELSE score3
             feedback ==
                 IF Len(pauses) = 0
                 THEN "Slow down. Add pauses between sentences to let ideas land."
                 ELSE IF strategicPauses = 0
                 THEN "You pause briefly, but try longer pauses (1s+) for emphasis."
                 ELSE IF tooLongPauses > 1
                 THEN "Some awkward silences detected. Keep pauses under 3 seconds."
                 ELSE IF shortPauses > strategicPauses * 3
                 THEN "Mostly short pauses. Use longer pauses to separate big ideas."
                 ELSE "Great rhythm! Good mix of flow and emphasis pauses."
             sorted == SortDesc(Map(pauses, LAMBDA p : <<p.duration, p>>))
         IN  [totalPauses |-> Len(pauses),
              strategicPauses |-> strategicPauses,
              shortPauses |-> shortPauses,
              tooLongPauses |-> tooLongPauses,
              avgPauseDuration |-> IF Len(pauses) > 0
                                   THEN Round(sumDuration, 10 * Len(pauses)) * 10
                                   ELSE 0,
              pauseScore |-> Clamp(score4),
              pauseDistribution |-> Take(Map(sorted, LAMBDA x : x[2]), 5),
              feedback |-> feedback]

analyzeStrategicPauses_Transition(words) == PauseAnalysis(words, PAUSE_THRESHOLDS_Transition)

analyzeStrategicPauses(words) == PauseAnalysis(words, PAUSE_THRESHOLDS)

(***************************************************************************)
(* stutteringAnalyzer.js.                                                  *)
(***************************************************************************)
BLOCK_THRESHOLD == 500

SEVERE_BLOCK_THRESHOLD == 1000

\* the early return of detectBlocks has no severeCount field
BlockAnalysis(words, blockThreshold, severeThreshold) ==
    IF Missing(words) \/ Len(Val(words)) < 2
    THEN [blocks |-> <<>>, count |-> 0, severity |-> "none"]
    ELSE LET ws == Val(words)
             at == SelectSeq(Indices(Len(ws)),
                             LAMBDA i : i > 1 /\ GapBefore(ws, i) >= blockThreshold)
             blocks == Map(at, LAMBDA i :
                          [beforeWord |-> ws[i - 1].word,
                           afterWord |-> ws[i].word,
                           duration |-> RoundCs(GapBefore(ws, i)),
                           timestamp |-> ws[i - 1].end,
                           isSevere |-> GapBefore(ws, i) >= severeThreshold])
             severeBlocks == Cardinality({k \in 1..Len(blocks) : blocks[k].isSevere})
             severity == IF Len(blocks) > 5 \/ severeBlocks > 2 THEN "high"
                         ELSE IF Len(blocks) > 2 \/ severeBlocks > 0 THEN "moderate"
                         ELSE IF Len(blocks) > 0 THEN "mild"
                         ELSE "none"
         IN  [blocks |-> blocks, count |-> Len(blocks), severeCount |-> severeBlocks,
              severity |-> severity]

\* the severity taken from the number of blocks alone
detectBlocks_CountOnly(words) ==
    Let(BlockAnalysis(words, BLOCK_THRESHOLD, SEVERE_BLOCK_THRESHOLD), LAMBDA r :
        [r EXCEPT !.severity = IF r.count > 5 THEN "high"
                               ELSE IF r.count > 2 THEN "moderate"
                               ELSE IF r.count > 0 THEN "mild"
                               ELSE "none"])

\* > for >=, as the comments beside the thresholds word it
detectBlocks_Strict(words) ==
    BlockAnalysis(words, BLOCK_THRESHOLD + 1, SEVERE_BLOCK_THRESHOLD + 1)

detectBlocks(words) == BlockAnalysis(words, BLOCK_THRESHOLD, SEVERE_BLOCK_THRESHOLD)

\* w.toLowerCase().replace(/[.,!?;:]/g, '')
normalizeWord(w) == Str(stripPunctuation(toLowerCase(Chars(w))))

\* the first index from j on whose normalized word is not currentWord
RECURSIVE repeatEnd(_, _, _)
repeatEnd(ws, j, currentWord) ==
    IF j <= Len(ws) /\ normalizeWord(ws[j].word) = currentWord
    THEN repeatEnd(ws, j + 1, currentWord) ELSE j

\* the while loop of detectRepetitions from index i (counted from 1); a run is
\* reported when it is at least minRun long
RECURSIVE wordRepetitions(_, _, _)
wordRepetitions(ws, i, minRun) ==
    IF i > Len(ws) THEN <<>>
    ELSE Let(normalizeWord(ws[i].word), LAMBDA currentWord :
         Let(repeatEnd(ws, i + 1, currentWord), LAMBDA j :
             IF j - i >= minRun
             THEN <<[word |-> currentWord, count |-> j - i,
                     timestamp |-> ws[i].start, type |-> "word"]>>
                  \o wordRepetitions(ws, j, minRun)
             ELSE wordRepetitions(ws, i + 1, minRun)))

\* how many characters from i on are the letter c, case ignored
RECURSIVE sameLetterRun(_, _, _)
sameLetterRun(s, i, c) ==
    IF i <= Len(s) /\ LowerMap[s[i]] = LowerMap[c] THEN 1 + sameLetterRun(s, i + 1, c) ELSE 0

RECURSIVE letterRun(_, _)
letterRun(s, i) == IF i <= Len(s) /\ IsLetter(s[i]) THEN 1 + letterRun(s, i + 1) ELSE 0

\* /\b([a-z])-\1+-[a-z]+/gi tried at position i: the position after the match,
\* 0 when there is none (both + are greedy and neither can give back)
stutterMatchEnd(s, i) ==
    IF /\ IsLetter(s[i])
       /\ i = 1 \/ ~IsWordChar(s[i - 1])
       /\ i + 1 <= Len(s) /\ s[i + 1] = "-"
    THEN LET k == sameLetterRun(s, i + 2, s[i])
             m == letterRun(s, i + 3 + k)
         IN  IF k >= 1 /\ i + 2 + k <= Len(s) /\ s[i + 2 + k] = "-" /\ m >= 1
             THEN i + 3 + k + m ELSE 0
    ELSE 0

\* transcript.match(stutterPattern) || []
stutterMatches(s) ==
    Let(Map(Indices(Len(s)), LAMBDA i : stutterMatchEnd(s, i)), LAMBDA ends :
        Map(matchStarts(ends, 1), LAMBDA i : SubSeq(s, i, ends[i] - 1)))

RepetitionAnalysis(words, minRun) ==
    IF Missing(words) \/ Len(Val(words)) < 2
    THEN [repetitions |-> <<>>, count |-> 0]
    ELSE LET ws == Val(words)
             transcript == Chars(join(Map(ws, LAMBDA w : w.word)))
             syllables == Map(stutterMatches(transcript), LAMBDA match :
                              [word |-> Str(match),
                               count |-> Len(SelectSeq(match, LAMBDA c : c = "-")) + 1,
                               timestamp |-> 0,
                               type |-> "syllable"])
         IN  Let(wordRepetitions(ws, 1, minRun) \o syllables, LAMBDA repetitions :
                 [repetitions |-> repetitions, count |-> Len(repetitions)])

\* repeatCount > 2 for repeatCount > 1
detectRepetitions_Three(words) == RepetitionAnalysis(words, 3)

detectRepetitions(words) == RepetitionAnalysis(words, 2)

\* obj.field of a record that may lack it, undefined read as NaN in arithmetic
NumField(r, f) == IF f \in DOMAIN r THEN r[f] ELSE NaN

\* x < y of two numbers, false when either is NaN
Less(x, y) == ~IsNaN(x) /\ ~IsNaN(y) /\ x < y

\* analyzePaceVariation with the default segmentDuration of 10 s.  avgWpm is the
\* exact mean S / n of the non-zero rates; variation is
\* Math.round(stdDev / avgWpm * 100) = round(100 * sqrt(n * sum(w^2) - S^2) / S).
\* The variation is computed when there are at least minSegments segments.
PaceAnalysis(words, minSegments) ==
    IF Missing(words) \/ Len(Val(words)) < 5
    THEN [segments |-> <<>>, variation |-> 0, consistency |-> "unknown"]
    ELSE LET ws == Val(words)
             segmentDuration == 10000
             totalDuration == ws[Len(ws)].end - ws[1].start
             numSegments == Max(1, totalDuration \div segmentDuration)
             segment(seg) ==
                 LET segStart == ws[1].start + seg * segmentDuration
                     segEnd == segStart + segmentDuration
                 IN  Let(SelectSeq(ws, LAMBDA w : w.start >= segStart /\ w.start < segEnd),
                         LAMBDA segmentWords :
                         LET wordCount == Len(segmentWords)
                             actualDuration ==
                                 IF wordCount > 0
                                 THEN segmentWords[wordCount].end - segmentWords[1].start
                                 ELSE segmentDuration
                         IN  [startTime |-> Round(segStart, 100) * 100,
                              wpm |-> IF actualDuration > 0
                                      THEN Round(wordCount * 60000, actualDuration) ELSE 0,
                              wordCount |-> wordCount])
         IN  Let(Map(Indices(numSegments), LAMBDA k : segment(k - 1)), LAMBDA segments :
             Let(SelectSeq(Map(segments, LAMBDA g : g.wpm), LAMBDA w : w > 0),
                 LAMBDA wpmValues :
             Let(SumSeq(wpmValues), LAMBDA S :
             Let(Len(wpmValues) * SumSeq(Map(wpmValues, LAMBDA w : w * w)) - S * S, LAMBDA Q :
             Let(IF Len(wpmValues) = 0 THEN NaN
                 ELSE (FloorSqrtE(4 * Q, 2) + S) \div (2 * S), LAMBDA variation :
                 IF Len(segments) >= minSegments
                 THEN [segments |-> segments, variation |-> variation,
                       consistency |->
                           IF Less(40, variation) THEN "highly variable"
                           ELSE IF Less(25, variation) THEN "somewhat variable"
                           ELSE "consistent",
                       averageWpm |-> IF Len(wpmValues) = 0 THEN NaN
                                      ELSE Round(S, Len(wpmValues))]
                 ELSE [segments |-> segments, variation |-> 0, consistency |-> "unknown",
                       averageWpm |-> segments[1].wpm])))))

\* segments.length > 0 for segments.length > 1
analyzePaceVariation_OneWindow(words) == PaceAnalysis(words, 1)

\* segments.length > 1
analyzePaceVariation(words) == PaceAnalysis(words, 2)

\* a recommendation is {icon, text, priority}; the icon follows from the text and
\* is left out.  encouragement is what an empty list is replaced by.
StutteringRecommendations(blocks, repetitions, paceVariation, encouragement) ==
    LET blockRecs ==
            IF blocks.severity = "high"
            THEN << [text |-> "Practice gentle onset technique - start words with a soft, easy voice.",
                     priority |-> "high"],
                    [text |-> "Focus on exhaling gently before speaking to reduce tension.",
                     priority |-> "high"] >>
            ELSE IF blocks.severity = "moderate"
            THEN << [text |-> "Use intentional pauses at natural points instead of fighting through blocks.",
                     priority |-> "medium"] >>
            ELSE IF blocks.count > 0
            THEN << [text |-> "Good job managing blocks! Continue practicing relaxed breathing.",
                     priority |-> "low"] >>
            ELSE <<>>
        repetitionRecs ==
            IF repetitions.count > 3
            THEN << [text |-> "Try slowing down slightly and stretching the first sound of words.",
                     priority |-> "medium"] >>
            ELSE IF repetitions.count > 0
            THEN << [text |-> "Practice smooth, flowing speech - let words connect naturally.",
                     priority |-> "low"] >>
            ELSE <<>>
        paceRecs ==
            IF paceVariation.consistency = "highly variable"
            THEN << [text |-> "Practice with a metronome or rhythmic pattern to stabilize pace.",
                     priority |-> "medium"] >>
            ELSE IF Less(NumField(paceVariation, "averageWpm"), 100)
            THEN << [text |-> "Your pace is deliberate - this is good for control! Gradually increase as comfort grows.",
                     priority |-> "low"] >>
            ELSE <<>>
        recommendations == blockRecs \o repetitionRecs \o paceRecs
    IN  Take(IF Len(recommendations) = 0 THEN encouragement ELSE recommendations, 4)

\* without the encouraging note
generateStutteringRecommendations_NoNote(blocks, repetitions, paceVariation) ==
    StutteringRecommendations(blocks, repetitions, paceVariation, <<>>)

generateStutteringRecommendations(blocks, repetitions, paceVariation) ==
    StutteringRecommendations(blocks, repetitions, paceVariation,
        << [text |-> "Excellent fluency! Keep up the great practice.",
            priority |-> "low"] >>)

\* fluencyScore -= blocks.severeCount * 10 is NaN when severeCount is undefined,
\* and Math.max(0, Math.min(100, NaN)) is NaN
generateStutteringReport(words) ==
    Let(detectBlocks(words), LAMBDA blocks :
    Let(detectRepetitions(words), LAMBDA repetitions :
    Let(analyzePaceVariation(words), LAMBDA paceVariation :
        LET severeCount == NumField(blocks, "severeCount")
            afterBlocks == IF IsNaN(severeCount) THEN NaN
                           ELSE 100 - blocks.count * 5 - severeCount * 10
            afterRepetitions == IF IsNaN(afterBlocks) THEN NaN
                                ELSE afterBlocks - repetitions.count * 8
            paceDeduction == IF Less(40, paceVariation.variation) THEN 15
                             ELSE IF Less(25, paceVariation.variation) THEN 8
                             ELSE 0
        IN  Let(IF IsNaN(afterRepetitions) THEN NaN
                ELSE Clamp(afterRepetitions - paceDeduction), LAMBDA fluencyScore :
                [fluencyScore |-> fluencyScore,
                 overallSeverity |-> IF Less(fluencyScore, 50) THEN "significant"
                                     ELSE IF Less(fluencyScore, 70) THEN "moderate"
                                     ELSE IF Less(fluencyScore, 85) THEN "mild"
                                     ELSE "minimal",
                 blocks |-> blocks,
                 repetitions |-> repetitions,
                 paceVariation |-> paceVariation,
                 recommendations |->
                     generateStutteringRecommendations(blocks, repetitions, paceVariation),
                 wordCount |-> IF Missing(words) THEN 0 ELSE Len(Val(words))]))))

(***************************************************************************)
(* analysisEngine.js: words per minute, rate variability, volume.          *)
(***************************************************************************)
\* transcript.trim().split(/\s+/)
trimSplit(transcript) == splitWs(trim(Chars(transcript)))

calculateWPM(transcript, durationMs) ==
    IF Falsy(transcript) \/ durationMs <= 0 THEN 0
    ELSE LET words == SelectSeq(trimSplit(Val(transcript)), LAMBDA w : Len(w) > 0)
         IN  Round(Len(words) * 60000, durationMs)

\* the phrases of analyzeRateVariability: ws cut wherever the gap exceeds 0.4 s;
\* as phrasesFrom, a gap of 0.4 s ending the phrase too
RECURSIVE phrasesFrom_FromGap(_, _, _)
phrasesFrom_FromGap(ws, i, cur) ==
    IF i > Len(ws) THEN (IF Len(cur) > 0 THEN <<cur>> ELSE <<>>)
    ELSE IF GapBefore(ws, i) >= 400
         THEN (IF Len(cur) > 0 THEN <<cur>> ELSE <<>>)
              \o phrasesFrom_FromGap(ws, i + 1, <<ws[i]>>)
         ELSE phrasesFrom_FromGap(ws, i + 1, Append(cur, ws[i]))

\* cur is the phrase being filled, i the next word
RECURSIVE phrasesFrom(_, _, _)
phrasesFrom(ws, i, cur) ==
    IF i > Len(ws) THEN (IF Len(cur) > 0 THEN <<cur>> ELSE <<>>)
    ELSE IF GapBefore(ws, i) > 400
         THEN (IF Len(cur) > 0 THEN <<cur>> ELSE <<>>) \o phrasesFrom(ws, i + 1, <<ws[i]>>)
         ELSE phrasesFrom(ws, i + 1, Append(cur, ws[i]))

\* cv = stdDev / avgWpm * 100 with stdDev = sqrt(V / n), V the sum of squared
\* deviations from avgWpm: 0/0 is NaN and x/0 is Infinity for x > 0
\* floorMean is whether the mean rate is cut (Math.floor), not rounded
RateAnalysis(words, floorMean) ==
    IF Missing(words) \/ Len(Val(words)) < 10
    THEN [segments |-> <<>>, avgWpm |-> 0, variabilityScore |-> 50,
          hasGoodVariation |-> FALSE, feedback |-> "Not enough data for rate analysis"]
    ELSE LET ws == Val(words)
             durationOf(p) == p[Len(p)].end - p[1].start
             wpmOf(p) == Round(Len(p) * 60000, durationOf(p))
             hasRate(p) == Len(p) >= 2 /\ durationOf(p) >= 200 /\ wpmOf(p) < 300
         IN  Let(Map(SelectSeq(phrasesFrom(ws, 2, <<ws[1]>>), hasRate), LAMBDA p :
                     [wpm |-> wpmOf(p), duration |-> durationOf(p),
                      wordCount |-> Len(p), startTime |-> p[1].start]),
                 LAMBDA phraseRates :
             IF Len(phraseRates) < 3
             THEN [avgWpm |-> calculateWPM(Some(join(Map(ws, LAMBDA w : w.word))),
                                           ws[Len(ws)].end - ws[1].start),
                   variabilityScore |-> 70,
                   hasGoodVariation |-> FALSE,
                   feedback |-> "Try speaking in longer phrases to establish flow.",
                   segments |-> <<>>]
             ELSE
             Let(Map(phraseRates, LAMBDA r : r.wpm), LAMBDA rates :
             Let(IF floorMean THEN SumSeq(rates) \div Len(rates)
                 ELSE Round(SumSeq(rates), Len(rates)), LAMBDA avgWpm :
             Let(SumSeq(Map(rates, LAMBDA r : (r - avgWpm) * (r - avgWpm))), LAMBDA V :
                 LET n == Len(rates)
                     cvAtLeast15 == IF avgWpm = 0 THEN V > 0
                                    ELSE 400 * V >= 9 * n * avgWpm * avgWpm
                     cvAtMost40 == avgWpm # 0 /\ 25 * V <= 4 * n * avgWpm * avgWpm
                     cvBelow15 == avgWpm # 0 /\ 400 * V < 9 * n * avgWpm * avgWpm
                     cvAbove40 == IF avgWpm = 0 THEN V > 0
                                  ELSE 25 * V > 4 * n * avgWpm * avgWpm
                     hasGoodVariation == cvAtLeast15 /\ cvAtMost40
                 IN  [segments |-> Take(phraseRates, 20),
                      avgWpm |-> avgWpm,
                      minWpm |-> CHOOSE r \in Range(rates) : \A o \in Range(rates) : r <= o,
                      maxWpm |-> CHOOSE r \in Range(rates) : \A o \in Range(rates) : r >= o,
                      stdDev |-> (Isqrt(4 * V * n) + n) \div (2 * n),
                      variabilityScore |-> IF hasGoodVariation THEN 95
                                           ELSE IF cvBelow15 THEN 60
                                           ELSE 60,
                      hasGoodVariation |-> hasGoodVariation,
                      feedback |->
                          IF cvBelow15
                          THEN "Your pace is very steady. Try slowing down for emphasis."
                          ELSE IF cvAbove40
                          THEN "Pace is erratic. Aim for smoother flow between phrases."
                          ELSE "Excellent pace variety! You use speed changes to highlight ideas."]))))

analyzeRateVariability_FloorMean(words) == RateAnalysis(words, TRUE)

analyzeRateVariability(words) == RateAnalysis(words, FALSE)

\* a volume sample is [timestamp, level]; the words argument is never read.
\* volumeVariation is Math.round(stdDev / avgVolume * 100) with
\* stdDev = sqrt(V / n), V the sum of squared deviations from avgVolume.
VolumeAnalysis(volumeHistory, words, minSamples) ==
    IF Missing(volumeHistory) \/ Len(Val(volumeHistory)) < minSamples
    THEN [avgVolume |-> 0, volumeScore |-> 50, hasTrailingOff |-> FALSE,
          volumeVariation |-> 0, feedback |-> "Not enough volume data"]
    ELSE Let(Map(Val(volumeHistory), LAMBDA v : v.level), LAMBDA levels :
         Let(Round(SumSeq(levels), Len(levels)), LAMBDA avgVolume :
         Let(SumSeq(Map(levels, LAMBDA v : (v - avgVolume) * (v - avgVolume))), LAMBDA V :
         LET n == Len(levels)
             splitIndex == (n * 8) \div 10
             firstPart == SubSeq(levels, 1, splitIndex)
             lastPart == SubSeq(levels, splitIndex + 1, n)
         IN
         Let(IF avgVolume > 0
             THEN (FloorSqrtE(4 * V * n, 2) + avgVolume * n) \div (2 * avgVolume * n)
             ELSE 0, LAMBDA volumeVariation :
         \* avgFirst > 15 && avgLast < avgFirst * 0.6, cross-multiplied
         Let(/\ SumSeq(firstPart) > 15 * Len(firstPart)
             /\ 10 * SumSeq(lastPart) * Len(firstPart) < 6 * SumSeq(firstPart) * Len(lastPart),
             LAMBDA hasTrailingOff :
         LET base == IF avgVolume < 15 THEN 40 + avgVolume
                     ELSE IF avgVolume >= 25 /\ avgVolume <= 60 THEN 90
                     ELSE IF avgVolume > 80 THEN 75
                     ELSE 70
             afterTrail == IF hasTrailingOff THEN base - 15 ELSE base
             afterVariation == IF volumeVariation > 50 THEN afterTrail - 10 ELSE afterTrail
         IN  [avgVolume |-> avgVolume,
              volumeScore |-> Clamp(afterVariation),
              hasTrailingOff |-> hasTrailingOff,
              volumeVariation |-> volumeVariation,
              feedback |->
                  IF avgVolume < 15 THEN "Speak up! Project your voice with more energy."
                  ELSE IF hasTrailingOff
                  THEN "Maintain volume through sentence ends. Don't trail off."
                  ELSE IF volumeVariation > 50 THEN "Keep volume more consistent for clarity."
                  ELSE "Great projection! Your energy comes through well.",
              history |-> levels])))))

\* the guard taken as length < 3
analyzeVolumePatterns_Three(volumeHistory, words) == VolumeAnalysis(volumeHistory, words, 3)

\* as analyzeVolumePatterns, were it to ask for words as well as samples
analyzeVolumePatterns_NeedsWords(volumeHistory, words) ==
    VolumeAnalysis(IF Len(Val(words)) = 0 THEN Some(<<>>) ELSE volumeHistory, words, 5)

analyzeVolumePatterns(volumeHistory, words) == VolumeAnalysis(volumeHistory, words, 5)

(***************************************************************************)
(* analysisEngine.js: hedging, thought completion, frameworks, analogies.  *)
(***************************************************************************)
RECURSIVE skipSpaces(_, _)
skipSpaces(s, i) == IF i <= Len(s) /\ IsSpace(s[i]) THEN skipSpaces(s, i + 1) ELSE i

\* the regular expression made of the characters of p, under the i flag, tried
\* at position i of s from its j-th character on: the position after the match,
\* 0 when there is none.  With flex, a space of p stands for \s+ (greedy; the
\* character after it is never white space, so it gives nothing back).
RECURSIVE regexEnd(_, _, _, _, _)
regexEnd(s, i, p, j, flex) ==
    IF j > Len(p) THEN i
    ELSE IF i > Len(s) THEN 0
    ELSE IF flex /\ p[j] = " "
         THEN (IF IsSpace(s[i]) THEN regexEnd(s, skipSpaces(s, i), p, j + 1, flex) ELSE 0)
         ELSE IF LowerMap[s[i]] = LowerMap[p[j]] THEN regexEnd(s, i + 1, p, j + 1, flex)
         ELSE 0

\* as countMatches, a space of p standing for one space only
countMatches_Literal(s, p, flex) ==
    Let(Map(Indices(Len(s)), LAMBDA i : regexEnd(s, i, p, 1, FALSE)), LAMBDA ends :
        Len(matchStarts(ends, 1)))

\* (s.match(regex) || []).length under the g flag: matches do not overlap
countMatches(s, p, flex) ==
    Let(Map(Indices(Len(s)), LAMBDA i : regexEnd(s, i, p, 1, flex)), LAMBDA ends :
        Len(matchStarts(ends, 1)))

HEDGING_PHRASES == << "i think maybe", "kind of", "sort of", "maybe", "possibly",
                      "potentially", "i guess", "i suppose", "probably", "might be",
                      "could be", "not sure but", "i was thinking", "perhaps", "somewhat",
                      "a little bit" >>

detectHedgingLanguage(transcript) ==
    IF Falsy(transcript)
    THEN [hedgingCount |-> 0, hedgingPhrases |-> <<>>, declarativeScore |-> 100,
          feedback |-> "No transcript to analyze"]
    ELSE Let(toLowerCase(Chars(Val(transcript))), LAMBDA lowerTranscript :
         Let(Map(HEDGING_PHRASES,
                 LAMBDA phrase : countMatches(lowerTranscript, Chars(phrase), TRUE)),
             LAMBDA matches :
         Let(SumSeq(matches), LAMBDA hedgingCount :
         Let(SortDesc(Map(SelectSeq(Indices(Len(HEDGING_PHRASES)), LAMBDA k : matches[k] > 0),
                          LAMBDA k : <<matches[k],
                                       [phrase |-> HEDGING_PHRASES[k], count |-> matches[k]]>>)),
             LAMBDA sorted :
         Let(Map(sorted, LAMBDA x : x[2]), LAMBDA foundHedges :
         Let(Len(trimSplit(Val(transcript))), LAMBDA wordCount :
             [hedgingCount |-> hedgingCount,
              hedgingPhrases |-> Take(foundHedges, 5),
              \* 100 - (hedgingCount / wordCount) * 400 - hedgingCount * 3
              declarativeScore |->
                  Clamp(Round(100 * wordCount - 400 * hedgingCount
                              - 3 * hedgingCount * wordCount, wordCount)),
              feedback |->
                  IF hedgingCount = 0
                  THEN "Excellent! You speak with confidence and conviction."
                  ELSE IF hedgingCount <= 2 THEN "Good clarity. Minor hedging detected."
                  ELSE IF hedgingCount <= 5
                  THEN "Try replacing \"" \o foundHedges[1].phrase
                       \o "\" with a direct statement."
                  ELSE "Use more declarative statements. Say what you mean directly."]))))))

analyzeThoughtCompletion(transcript) ==
    IF Falsy(transcript) \/ Len(Val(transcript)) < 20
    THEN [avgSentenceLength |-> 0, longSentences |-> 0, completionScore |-> 50,
          feedback |-> "Not enough text to analyze"]
    ELSE Let(SelectSeq(splitSentences(Chars(Val(transcript))), LAMBDA x : Len(trim(x)) > 0),
             LAMBDA sentences :
         Let(Map(sentences, LAMBDA x : Len(splitWs(trim(x)))), LAMBDA sentenceWordCounts :
         Let(IF Len(sentenceWordCounts) > 0
             THEN Round(SumSeq(sentenceWordCounts), Len(sentenceWordCounts))
             ELSE 0, LAMBDA avgLength :
         Let(Len(SelectSeq(sentenceWordCounts, LAMBDA c : c > 25)), LAMBDA longSentences :
         Let(Len(SelectSeq(sentenceWordCounts, LAMBDA c : c > 40)), LAMBDA veryLongSentences :
             [avgSentenceLength |-> avgLength,
              longSentences |-> longSentences,
              veryLongSentences |-> veryLongSentences,
              sentenceCount |-> Len(sentences),
              completionScore |-> Clamp(90 - longSentences * 5 - veryLongSentences * 10),
              feedback |->
                  IF veryLongSentences > 0
                  THEN "Break up very long sentences. One idea, then pause."
                  ELSE IF longSentences > 2
                  THEN "Some sentences are long. Try finishing thoughts sooner."
                  ELSE IF avgLength < 5
                  THEN "Sentences are quite short - try expanding key points."
                  ELSE "Great sentence structure! You complete thoughts clearly."])))))

FRAMEWORK_MARKERS ==
    [context |-> << "as you know", "given that", "since", "because", "the situation is",
                    "the goal is", "we need to" >>,
     core |-> << "the point is", "the main idea", "in short", "my recommendation",
                 "we should", "i propose", "the key is" >>,
     connect |-> << "this means", "this will allow", "as a result", "the benefit",
                    "for you", "this matters because", "what this gives us" >>]

detectFrameworks(transcript) ==
    IF Falsy(transcript)
    THEN [hasContext |-> FALSE, hasCore |-> FALSE, hasConnect |-> FALSE,
          frameworkScore |-> 0, feedback |-> "No transcript to analyze"]
    ELSE Let(toLowerCase(Chars(Val(transcript))), LAMBDA lower :
         LET some(markers) == \E k \in 1..Len(markers) : Includes(lower, Chars(markers[k]))
         IN
         Let(some(FRAMEWORK_MARKERS.context), LAMBDA contextFound :
         Let(some(FRAMEWORK_MARKERS.core), LAMBDA coreFound :
         Let(some(FRAMEWORK_MARKERS.connect), LAMBDA connectFound :
         Let(Len(SelectSeq(<<contextFound, coreFound, connectFound>>, LAMBDA b : b)),
             LAMBDA partsFound :
             [hasContext |-> contextFound,
              hasCore |-> coreFound,
              hasConnect |-> connectFound,
              frameworkScore |-> Round(partsFound * 100, 3),
              feedback |->
                  IF partsFound = 3
                  THEN "Excellent! You used Context-Core-Connect framework."
                  ELSE IF partsFound = 2
                  THEN "Good structure! Add more "
                       \o (IF ~contextFound THEN "context"
                           ELSE IF ~coreFound THEN "core point" ELSE "connection")
                       \o "."
                  ELSE IF partsFound = 1
                  THEN "Try structuring responses with Context -> Core -> Connect."
                  ELSE "Structure your message: Why (context), What (core), So what (connect)."])))))

ANALOGY_MARKERS == << "like a", "similar to", "imagine", "think of it as", "just like",
                      "in the same way", "it's like", "picture this", "for example",
                      "comparable to", " as if", "reminds me of" >>

detectAnalogies(transcript) ==
    IF Falsy(transcript)
    THEN [analogyCount |-> 0, analogiesFound |-> <<>>, analogyScore |-> 0,
          feedback |-> "No transcript to analyze"]
    ELSE Let(toLowerCase(Chars(Val(transcript))), LAMBDA lower :
         Let(Map(ANALOGY_MARKERS, LAMBDA marker : countMatches(lower, Chars(marker), FALSE)),
             LAMBDA matches :
         Let(SumSeq(matches), LAMBDA totalCount :
             [analogyCount |-> totalCount,
              analogiesFound |->
                  Map(SelectSeq(Indices(Len(ANALOGY_MARKERS)), LAMBDA k : matches[k] > 0),
                      LAMBDA k : [marker |-> ANALOGY_MARKERS[k], count |-> matches[k]]),
              analogyScore |-> IF totalCount > 5 THEN 90
                               ELSE IF totalCount >= 3 THEN 95
                               ELSE IF totalCount >= 2 THEN 85
                               ELSE IF totalCount >= 1 THEN 70
                               ELSE 50,
              feedback |->
                  IF totalCount = 0
                  THEN "Try using analogies: 'It's like...' makes ideas memorable."
                  ELSE IF totalCount <= 2
                  THEN "Good use of analogies to clarify your message."
                  ELSE "Great! Your analogies make complex ideas relatable."])))

\* score = 100 - 0.3 * (100 - wpm) [wpm < 100] - 0.5 * (wpm - 180) [wpm > 180]
\*         - (fillerCount / wordCount) * 500, over the denominator 10 * wordCount
calculateClarityScore(wpm, fillerCount, wordCount) ==
    LET w == IF wordCount > 0 THEN wordCount ELSE 1
        slow == IF wpm < 100 THEN 3 * (100 - wpm) * w ELSE 0
        fast == IF wpm > 180 THEN 5 * (wpm - 180) * w ELSE 0
        fillers == IF wordCount > 0 THEN 5000 * fillerCount ELSE 0
    IN  Clamp(Round(1000 * w - slow - fast - fillers, 10 * w))

(***************************************************************************)
(* analysisEngine.js: the aggregator.                                      *)
(***************************************************************************)
\* Math.round of the weighted sum of the seven habit scores, the weights in
\* hundredths
WeightedHabits(w, pause, rate, declarative, volume, completion, framework, analogy) ==
    Round(w[1] * pause + w[2] * rate + w[3] * declarative + w[4] * volume
          + w[5] * completion + w[6] * framework + w[7] * analogy, 100)

\* the rate weight raised to that of the others
habitsScoreOf_EqualWeights(pause, rate, declarative, volume, completion, framework, analogy) ==
    WeightedHabits(<<15, 15, 15, 15, 15, 15, 15>>,
                   pause, rate, declarative, volume, completion, framework, analogy)

habitsScoreOf(pause, rate, declarative, volume, completion, framework, analogy) ==
    WeightedHabits(<<15, 10, 15, 15, 15, 15, 15>>,
                   pause, rate, declarative, volume, completion, framework, analogy)

\* Math.round of the weighted sum, over the denominator 300: Math.min(100, wpm / 1.5)
\* is min(300, 2 * wpm) / 3.  NaN in, NaN out.
WeightedOverall(w, clarityScore, fluencyScore, habitsScore, wpm, eyeContactPercentage, postureScore) ==
    IF IsNaN(fluencyScore) THEN NaN
    ELSE Round(3 * (w[1] * clarityScore + w[2] * fluencyScore + w[3] * habitsScore
                    + w[5] * eyeContactPercentage + w[6] * postureScore)
               + w[4] * Min(300, 2 * wpm), 300)

\* the habits weighted as clarity is
overallScoreOf_HabitsLight(clarityScore, fluencyScore, habitsScore, wpm, eyeContactPercentage, postureScore) ==
    WeightedOverall(<<15, 10, 15, 10, 15, 15>>, clarityScore, fluencyScore, habitsScore, wpm,
                    eyeContactPercentage, postureScore)

overallScoreOf(clarityScore, fluencyScore, habitsScore, wpm, eyeContactPercentage, postureScore) ==
    WeightedOverall(<<15, 10, 35, 10, 15, 15>>, clarityScore, fluencyScore, habitsScore, wpm,
                    eyeContactPercentage, postureScore)

\* a recommendation of generateHabitsRecommendations is {icon, text, priority};
\* the icon follows from the branch and is left out.  The rate item is given
\* for a variabilityScore under rateLimit.
HabitsRecommendations(strategicPauses, hedgingAnalysis, rateVariability, fillerAnalysis, rateLimit) ==
    LET pauseRecs ==
            IF strategicPauses.pauseScore < 60
            THEN << [text |-> strategicPauses.feedback, priority |-> "high"] >>
            ELSE <<>>
        \* topFiller || topHedge
        issue == IF Len(fillerAnalysis.occurrences) > 0
                 THEN fillerAnalysis.occurrences[1].word
                 ELSE hedgingAnalysis.hedgingPhrases[1].phrase
        fillerRecs ==
            IF fillerAnalysis.count > 5 \/ hedgingAnalysis.hedgingCount > 3
            THEN << [text |-> "Replace \"" \o issue \o "\" with a pause or direct statement.",
                     priority |-> "high"] >>
            ELSE IF hedgingAnalysis.declarativeScore < 70
            THEN << [text |-> hedgingAnalysis.feedback, priority |-> "medium"] >>
            ELSE <<>>
        rateRecs ==
            IF rateVariability.variabilityScore < rateLimit
            THEN << [text |-> rateVariability.feedback, priority |-> "medium"] >>
            ELSE <<>>
    IN  pauseRecs \o fillerRecs \o rateRecs

\* variabilityScore <= 60 for variabilityScore < 60
generateHabitsRecommendations_UpTo60(strategicPauses, hedgingAnalysis, rateVariability, fillerAnalysis) ==
    HabitsRecommendations(strategicPauses, hedgingAnalysis, rateVariability, fillerAnalysis, 61)

\* variabilityScore < 60
generateHabitsRecommendations(strategicPauses, hedgingAnalysis, rateVariability, fillerAnalysis) ==
    HabitsRecommendations(strategicPauses, hedgingAnalysis, rateVariability, fillerAnalysis, 60)

\* a recommendation of generateRecommendations is a plain string, here [text]
generateRecommendations(wpm, fillerCount, eyeContactPercentage, postureScore) ==
    LET pace ==
            IF wpm < 100
            THEN << [text |-> "Try to increase your speaking pace slightly for better engagement."] >>
            ELSE IF wpm > 180
            THEN << [text |-> "Consider slowing down to allow your audience to absorb information."] >>
            ELSE <<>>
        fillers ==
            IF fillerCount > 5
            THEN << [text |-> "Practice reducing filler words by pausing briefly instead of using \"um\" or \"uh\"."] >>
            ELSE <<>>
        eyes ==
            IF eyeContactPercentage < 70
            THEN << [text |-> "Focus on maintaining eye contact with the camera to connect with your audience."] >>
            ELSE <<>>
        posture ==
            IF postureScore < 70
            THEN << [text |-> "Sit up straight and keep your shoulders back for a more confident presence."] >>
            ELSE <<>>
        recommendations == pace \o fillers \o eyes \o posture
    IN  IF Len(recommendations) = 0
        THEN << [text |-> "Great job! Keep practicing to maintain your excellent performance."] >>
        ELSE recommendations

\* [...habits, ...stuttering, ...base] left whole
mergeRecommendations_NoSlice(habitsRecommendations, stutteringRecommendations, baseRecommendations) ==
    habitsRecommendations \o stutteringRecommendations \o baseRecommendations

\* [...base, ...stuttering, ...habits].slice(0, 8)
mergeRecommendations_BaseFirst(habitsRecommendations, stutteringRecommendations, baseRecommendations) ==
    Take(baseRecommendations \o stutteringRecommendations \o habitsRecommendations, 8)

\* [...habits, ...stuttering, ...base].slice(0, 8)
mergeRecommendations(habitsRecommendations, stutteringRecommendations, baseRecommendations) ==
    Take(habitsRecommendations \o stutteringRecommendations \o baseRecommendations, 8)

\* data is [transcript, durationMs, eyeContactPercentage, postureScore, words,
\* stutteringReport, volumeHistory]; words and volumeHistory default to []
destructure(data) ==
    [transcript |-> data.transcript,
     durationMs |-> data.durationMs,
     words |-> IF IsDefined(data.words) THEN data.words ELSE Some(<<>>),
     volumeHistory |-> IF IsDefined(data.volumeHistory) THEN data.volumeHistory
                       ELSE Some(<<>>)]

\* the constants the analyzer calls of generatePerformanceReport assign, in the
\* order of the calls
AnalysisNames ==
    <<"wpm", "fillerAnalysis", "pauseAnalysis", "hedgingAnalysis", "rateVariability",
      "volumeAnalysis", "thoughtCompletion", "frameworkDetection", "analogyDetection">>

\* the analyzer call that assigns the constant name
analysisOf(name, in) ==
    CASE name = "wpm" -> calculateWPM(in.transcript, in.durationMs)
      [] name = "fillerAnalysis" -> detectFillerWords(in.transcript)
      [] name = "pauseAnalysis" -> analyzeStrategicPauses(in.words)
      [] name = "hedgingAnalysis" -> detectHedgingLanguage(in.transcript)
      [] name = "rateVariability" -> analyzeRateVariability(in.words)
      [] name = "volumeAnalysis" -> analyzeVolumePatterns(in.volumeHistory, in.words)
      [] name = "thoughtCompletion" -> analyzeThoughtCompletion(in.transcript)
      [] name = "frameworkDetection" -> detectFrameworks(in.transcript)
      [] name = "analogyDetection" -> detectAnalogies(in.transcript)

\* what generatePerformanceReport computes from the analyzers' results a
reportFrom(data, a) ==
    Let([wordCount |-> IF Falsy(data.transcript) THEN 0
                       ELSE Len(trimSplit(Val(data.transcript))),
         \* stutteringReport?.fluencyScore ?? 100
         fluencyScore |-> IF IsDefined(data.stutteringReport)
                          THEN Val(data.stutteringReport).fluencyScore ELSE 100], LAMBDA c :
    Let(calculateClarityScore(a.wpm, a.fillerAnalysis.count, c.wordCount),
        LAMBDA clarityScore :
    Let(habitsScoreOf(a.pauseAnalysis.pauseScore,
                      a.rateVariability.variabilityScore,
                      a.hedgingAnalysis.declarativeScore,
                      a.volumeAnalysis.volumeScore,
                      a.thoughtCompletion.completionScore,
                      a.frameworkDetection.frameworkScore,
                      a.analogyDetection.analogyScore), LAMBDA habitsScore :
    LET overallScore == overallScoreOf(clarityScore, c.fluencyScore, habitsScore, a.wpm,
                                       data.eyeContactPercentage, data.postureScore)
        habitsRecommendations ==
            generateHabitsRecommendations(a.pauseAnalysis, a.hedgingAnalysis,
                                          a.rateVariability, a.fillerAnalysis)
        baseRecommendations ==
            generateRecommendations(a.wpm, a.fillerAnalysis.count,
                                    data.eyeContactPercentage, data.postureScore)
        stutteringRecommendations ==
            IF IsDefined(data.stutteringReport) THEN Val(data.stutteringReport).recommendations
            ELSE <<>>
    IN  [summary |-> [overallScore |-> overallScore, duration |-> data.durationMs,
                      wordCount |-> c.wordCount, wpm |-> a.wpm,
                      fluencyScore |-> c.fluencyScore,
                      habitsScore |-> habitsScore, clarityScore |-> clarityScore],
         speech |-> [wpm |-> a.wpm, clarityScore |-> clarityScore,
                     fillerWords |-> a.fillerAnalysis, pauses |-> a.pauseAnalysis],
         habits |-> [delivery |-> [pauses |-> a.pauseAnalysis, rate |-> a.rateVariability,
                                   declarative |-> a.hedgingAnalysis],
                     vocal |-> [volume |-> a.volumeAnalysis],
                     cognitive |-> [thoughtCompletion |-> a.thoughtCompletion,
                                    frameworks |-> a.frameworkDetection,
                                    analogies |-> a.analogyDetection]],
         visual |-> [eyeContactPercentage |-> data.eyeContactPercentage,
                     postureScore |-> data.postureScore],
         transcript |-> IF Falsy(data.transcript) THEN "" ELSE Val(data.transcript),
         stuttering |-> data.stutteringReport,
         recommendations |-> mergeRecommendations(habitsRecommendations,
                                                  stutteringRecommendations,
                                                  baseRecommendations)])))

generatePerformanceReport(data) ==
    Let(destructure(data), LAMBDA in :
    Let([wpm |-> analysisOf("wpm", in),
         fillerAnalysis |-> analysisOf("fillerAnalysis", in),
         pauseAnalysis |-> analysisOf("pauseAnalysis", in),
         hedgingAnalysis |-> analysisOf("hedgingAnalysis", in),
         rateVariability |-> analysisOf("rateVariability", in),
         volumeAnalysis |-> analysisOf("volumeAnalysis", in),
         thoughtCompletion |-> analysisOf("thoughtCompletion", in),
         frameworkDetection |-> analysisOf("frameworkDetection", in),
         analogyDetection |-> analysisOf("analogyDetection", in)], LAMBDA a :
        reportFrom(data, a)))

(***************************************************************************)
(* The calls.  A behaviour is one call of an exported function on one      *)
(* input: call names the function, the inputs are what the caller holds,   *)
(* result is what the call returned (Undefined before it returns).  For    *)
(* generatePerformanceReport the caller may first obtain stutteringReport  *)
(* from generateStutteringReport, as handleAnalyze of App.jsx does.  The    *)
(* call "analyzers" is the body of generatePerformanceReport with its       *)
(* analyzer calls taken one at a time in any order: analyses holds the      *)
(* constants assigned so far (it is empty in every other call).             *)
(***************************************************************************)
VARIABLES call, transcript, words, volumeHistory, durationMs, eyeContactPercentage,
          postureScore, stutteringReport, result, analyses

inputs == <<call, transcript, words, volumeHistory, durationMs, eyeContactPercentage,
            postureScore>>

\* what no function is handed a reference to
scalars == <<call, transcript, durationMs, eyeContactPercentage, postureScore>>

vars == <<call, transcript, words, volumeHistory, durationMs, eyeContactPercentage,
          postureScore, stutteringReport, result, analyses>>

\* the sequences over S of length at most n
SeqsUpTo(S, n) == UNION {[1..k -> S] : k \in 0..n}

\* p repeated to length n
Cycle(p, n) == [k \in 1..n |-> p[((k - 1) % Len(p)) + 1]]

\* {word, start, end} entries: every word lasts 200 ms, the first starts at 0,
\* gaps[k] separates word k from word k + 1
WordTimings(toks, gaps) ==
    [k \in 1..Len(toks) |->
        LET start == 200 * (k - 1) + SumSeq(SubSeq(gaps, 1, k - 1))
        IN  [word |-> toks[k], start |-> start, end |-> start + 200]]

\* {timestamp, level} samples, one every 100 ms
VolumeSamples(levels) ==
    [k \in 1..Len(levels) |-> [timestamp |-> 100 * k, level |-> levels[k]]]

FillerTokens == {"um,", "So", "like,", "I", "u.m", "you", "know"}

ExampleTranscript == "um, so like, I think"

PauseGaps == {299, 300, 799, 800, 3999, 4000}

\* longer deliveries: the gaps of a pattern, repeated
PausePatterns ==
    { <<100>>, <<100, 800>>, <<4000>>, <<100, 100, 100, 100, 100, 100, 800>>,
      <<100, 100, 100, 100, 100, 4000, 800>>, <<300, 4000, 800, 500, 100>> }

\* words 0 - 0.2 s and 1.5 - 1.7 s
ExamplePauseWords == WordTimings(<<"first", "second">>, <<1300>>)

BlockGaps == {100, 499, 500, 999, 1000}

\* longer deliveries: the gaps of a pattern, repeated
BlockPatterns == { <<500>>, <<1000, 100>>, <<100, 100, 500>>, <<499, 999>> }

RepetitionTokens == {"the", "The", "the,", "cat", "b-b-ball"}

VolumeLevels == {0, 20, 50, 100}

\* levels about the "too quiet" mark
QuietLevels == {14, 15}

\* what is said: a transcript is one phrase of the script, or its first
\* phrases, the script starting over after its last phrase
ReportScript ==
    << "I think maybe it is kind of, sort of, probably fine.",
       "Because we should imagine this means progress.",
       "um uh like so well okay",
       "we go on and on and on and on and on and on and on and on and on and on and on and on and on." >>

\* how it is said: the tokens and the gaps, each repeated
ReportDeliveries ==
    { [tokens |-> <<"we", "go", "on">>, gaps |-> <<100, 100, 500>>],
      [tokens |-> <<"the", "the", "cat">>, gaps |-> <<1000, 600>>],
      [tokens |-> <<"so", "we", "go">>, gaps |-> <<50, 50, 500, 300, 300, 500>>],
      [tokens |-> <<"b-b-ball", "is", "is", "is">>, gaps |-> <<4000, 100>>] }

ReportVolumes == {Undefined, Some(VolumeSamples(<<50, 50, 50, 50, 10>>))}

ReportDurations == {0, 6000, 60000}

ReportVisuals == {0, 100}

\* nothing has been called
Fresh == stutteringReport = Undefined /\ result = Undefined /\ analyses = <<>>

\* no recording session
NoSession == durationMs = 0 /\ eyeContactPercentage = 0 /\ postureScore = 0

InitDetectFillerWords ==
    /\ call = "detectFillerWords"
    /\ \/ transcript \in {Undefined, Some(ExampleTranscript)}
       \/ \E toks \in SeqsUpTo(FillerTokens, MaxFillerTokens) :
              transcript = Some(join(toks))
    /\ words = Undefined /\ volumeHistory = Undefined /\ NoSession /\ Fresh

InitAnalyzeStrategicPauses ==
    /\ call = "analyzeStrategicPauses"
    /\ \/ words \in {Undefined, Some(ExamplePauseWords)}
       \/ \E n \in 0..MaxPauseWords : \E gaps \in [1..(n - 1) -> PauseGaps] :
              words = Some(WordTimings(Cycle(<<"word">>, n), gaps))
       \/ \E n \in 0..(2 * MaxPauseWords) : \E p \in PausePatterns :
              words = Some(WordTimings(Cycle(<<"word">>, n), Cycle(p, n)))
    /\ transcript = Undefined /\ volumeHistory = Undefined /\ NoSession /\ Fresh

InitDetectBlocks ==
    /\ call = "detectBlocks"
    /\ \/ words = Undefined
       \/ \E n \in 0..MaxBlockWords : \E gaps \in [1..(n - 1) -> BlockGaps] :
              words = Some(WordTimings(Cycle(<<"word">>, n), gaps))
       \/ \E n \in 0..(2 * MaxBlockWords) : \E p \in BlockPatterns :
              words = Some(WordTimings(Cycle(<<"word">>, n), Cycle(p, n)))
    /\ transcript = Undefined /\ volumeHistory = Undefined /\ NoSession /\ Fresh

InitDetectRepetitions ==
    /\ call = "detectRepetitions"
    /\ \/ words = Undefined
       \/ \E toks \in SeqsUpTo(RepetitionTokens, MaxRepWords) :
              words = Some(WordTimings(toks, Cycle(<<100>>, Len(toks))))
    /\ transcript = Undefined /\ volumeHistory = Undefined /\ NoSession /\ Fresh

InitAnalyzeVolumePatterns ==
    /\ call = "analyzeVolumePatterns"
    /\ \/ volumeHistory = Undefined
       \/ \E levels \in SeqsUpTo(VolumeLevels, MaxVolumeSamples) :
              volumeHistory = Some(VolumeSamples(levels))
       \/ \E levels \in SeqsUpTo(QuietLevels, MaxVolumeSamples) :
              volumeHistory = Some(VolumeSamples(levels))
    /\ words \in {Undefined, Some(<<>>)}
    /\ transcript = Undefined /\ NoSession /\ Fresh

InitGeneratePerformanceReport ==
    /\ call = "generatePerformanceReport"
    /\ \/ transcript = Undefined
       \/ \E i \in 1..Len(ReportScript) : transcript = Some(ReportScript[i])
       \/ \E k \in 0..MaxReportPhrases : transcript = Some(join(Cycle(ReportScript, k)))
    /\ \/ words = Undefined
       \/ \E d \in ReportDeliveries, n \in 0..MaxReportWords :
              words = Some(WordTimings(Cycle(d.tokens, n), Cycle(d.gaps, n)))
    /\ volumeHistory \in ReportVolumes
    /\ durationMs \in ReportDurations
    /\ eyeContactPercentage \in ReportVisuals
    /\ postureScore \in ReportVisuals
    /\ Fresh

\* "just like a" holds the markers "just like" and "like a"
AnalogyTokens == {"Imagine", "just like a", "river"}

InitDetectAnalogies ==
    /\ call = "detectAnalogies"
    /\ \/ transcript \in {Undefined, Some("")}
       \/ \E toks \in SeqsUpTo(AnalogyTokens, MaxAnalogyTokens) :
              transcript = Some(join(toks))
    /\ words = Undefined /\ volumeHistory = Undefined /\ NoSession /\ Fresh

\* "I think maybe" is matched by two phrases; "kind  of" has two spaces
HedgingTokens == {"I think maybe", "kind  of", "Maybe", "it", "works well for all of us"}

InitDetectHedgingLanguage ==
    /\ call = "detectHedgingLanguage"
    /\ \/ transcript \in {Undefined, Some(" ")}
       \/ \E toks \in SeqsUpTo(HedgingTokens, MaxHedgingTokens) :
              transcript = Some(join(toks))
    /\ words = Undefined /\ volumeHistory = Undefined /\ NoSession /\ Fresh

\* phrases to be said: words many words with gap between one and the next
RatePhraseShapes ==
    { [words |-> 4, gap |-> 370], [words |-> 4, gap |-> 310], [words |-> 4, gap |-> 10],
      [words |-> 4, gap |-> 100], [words |-> 4, gap |-> 0], [words |-> 1, gap |-> 0] }

\* the gaps of the phrases said one after another, 0.5 s after each
RECURSIVE PhraseGaps(_)
PhraseGaps(shapes) ==
    IF shapes = <<>> THEN <<>>
    ELSE Cycle(<<shapes[1].gap>>, shapes[1].words - 1) \o <<500>> \o PhraseGaps(Tail(shapes))

\* gaps about the 0.4 s that ends a phrase
RateGapPatterns == { <<400>>, <<401>>, <<400, 401>>, <<100, 100, 401, 400>> }

InitAnalyzeRateVariability ==
    /\ call = "analyzeRateVariability"
    /\ \/ words = Undefined
       \/ \E n \in 0..(3 * MaxRatePhrases) : \E p \in RateGapPatterns :
              words = Some(WordTimings(Cycle(<<"word">>, n), Cycle(p, n)))
       \/ \E shapes \in SeqsUpTo(RatePhraseShapes, MaxRatePhrases) :
              words = Some(WordTimings(Cycle(<<"word">>, Len(PhraseGaps(shapes))),
                                       PhraseGaps(shapes)))
    /\ transcript = Undefined /\ volumeHistory = Undefined /\ NoSession /\ Fresh

\* a marker of each part, one of them in capitals, and a word that is none
FrameworkTokens == {"Because", "we should", "this means", "as a result", "go"}

InitDetectFrameworks ==
    /\ call = "detectFrameworks"
    /\ \/ transcript \in {Undefined, Some("")}
       \/ \E toks \in SeqsUpTo(FrameworkTokens, MaxFrameworkTokens) :
              transcript = Some(join(toks))
    /\ words = Undefined /\ volumeHistory = Undefined /\ NoSession /\ Fresh

\* deliveries over one or more 10 s windows: the tokens and the gaps, each
\* repeated.  Brisk; a word every 5 s; brisk, then a word every 5 s; three
\* words in 3.9 s, then a word every 5 s; ten brisk words, then three in the
\* next window; a stutter with blocks.
PaceDeliveries ==
    { [tokens |-> <<"we", "go", "on">>, gaps |-> <<100>>],
      [tokens |-> <<"so", "we", "go">>, gaps |-> <<4800>>],
      [tokens |-> <<"we", "go", "on">>,
       gaps |-> <<100, 100, 100, 100, 100, 100, 4800, 4800, 4800, 4800, 4800, 4800, 4800>>],
      [tokens |-> <<"the", "the", "cat">>, gaps |-> <<1650, 1650, 6100, 4800, 4800, 4800>>],
      [tokens |-> <<"we", "go", "on">>,
       gaps |-> <<100, 100, 100, 100, 100, 100, 100, 100, 100, 7300, 4600, 4600, 4800>>],
      [tokens |-> <<"b-b-ball", "is", "is", "is">>, gaps |-> <<1000, 500, 100>>] }

InitAnalyzePaceVariation ==
    /\ call = "analyzePaceVariation"
    /\ \/ words = Undefined
       \/ \E d \in PaceDeliveries, n \in 0..MaxPaceWords :
              words = Some(WordTimings(Cycle(d.tokens, n), Cycle(d.gaps, n)))
    /\ transcript = Undefined /\ volumeHistory = Undefined /\ NoSession /\ Fresh

InitGenerateStutteringReport ==
    /\ call = "generateStutteringReport"
    /\ \/ words = Undefined
       \/ \E d \in PaceDeliveries, n \in 0..MaxPaceWords :
              words = Some(WordTimings(Cycle(d.tokens, n), Cycle(d.gaps, n)))
    /\ transcript = Undefined /\ volumeHistory = Undefined /\ NoSession /\ Fresh

\* the body of generatePerformanceReport entered with no analyzer called yet
InitAnalyzers ==
    /\ call = "analyzers"
    /\ transcript \in {Undefined, Some(ReportScript[1])}
    /\ \/ words = Undefined
       \/ \E d \in ReportDeliveries :
              words = Some(WordTimings(Cycle(d.tokens, MaxReportWords),
                                       Cycle(d.gaps, MaxReportWords)))
    /\ volumeHistory \in ReportVolumes
    /\ durationMs = 6000
    /\ eyeContactPercentage = 100
    /\ postureScore = 100
    /\ Fresh

Init ==
    \/ InitDetectFillerWords
    \/ InitAnalyzeStrategicPauses
    \/ InitDetectBlocks
    \/ InitDetectRepetitions
    \/ InitAnalyzeVolumePatterns
    \/ InitGeneratePerformanceReport
    \/ InitAnalyzers
    \/ InitGenerateStutteringReport
    \/ InitAnalyzePaceVariation
    \/ InitDetectFrameworks
    \/ InitAnalyzeRateVariability
    \/ InitDetectHedgingLanguage
    \/ InitDetectAnalogies

\* s in the opposite order
Reverse(s) == [k \in 1..Len(s) |-> s[Len(s) + 1 - k]]

\* The caller's words array after fn of analysisEngine.js returns.  No function
\* assigns to words or to an element of it: the sort of analyzeStrategicPauses
\* orders its own pauses array, and the phrases of analyzeRateVariability are
\* arrays it builds itself.
wordsAfter_SortedInPlace(fn, ws) ==
    IF fn \in {"analyzeStrategicPauses", "pauseAnalysis", "generatePerformanceReport"}
       /\ IsDefined(ws)
    THEN Some(Reverse(Val(ws)))
    ELSE ws

wordsAfter(fn, ws) == ws

\* The caller's words array after fn of stutteringAnalyzer.js returns: the
\* functions read words by index and through filter and map, which build new
\* arrays.
wordsAfterStuttering(fn, ws) == ws

\* The caller's volumeHistory array after fn returns: analyzeVolumePatterns
\* maps it to its own levels array and slices that.
volumeHistoryAfter_Spliced(fn, vh) ==
    IF fn \in {"analyzeVolumePatterns", "volumeAnalysis", "generatePerformanceReport"}
       /\ IsDefined(vh) /\ Len(Val(vh)) \geq 5
    THEN Some(SubSeq(Val(vh), 1, (8 * Len(Val(vh))) \div 10))
    ELSE vh

volumeHistoryAfter(fn, vh) == vh

\* The supplied stutteringReport after generatePerformanceReport returns: its
\* fluencyScore and recommendations are read, and the report refers to it.
stutteringReportAfter(r) == r

\* fn of analysisEngine.js returns value
Return(fn, value) ==
    /\ call = fn
    /\ result = Undefined
    /\ result' = Some(value)
    /\ words' = wordsAfter(fn, words)
    /\ volumeHistory' = volumeHistoryAfter(fn, volumeHistory)
    /\ stutteringReport' = stutteringReportAfter(stutteringReport)
    /\ UNCHANGED <<scalars, analyses>>

\* fn of stutteringAnalyzer.js returns value
ReturnStuttering(fn, value) ==
    /\ call = fn
    /\ result = Undefined
    /\ result' = Some(value)
    /\ words' = wordsAfterStuttering(fn, words)
    /\ UNCHANGED <<scalars, volumeHistory, stutteringReport, analyses>>

CallDetectFillerWords == Return("detectFillerWords", detectFillerWords(transcript))

CallAnalyzeStrategicPauses == Return("analyzeStrategicPauses", analyzeStrategicPauses(words))

CallDetectBlocks == ReturnStuttering("detectBlocks", detectBlocks(words))

CallDetectRepetitions == ReturnStuttering("detectRepetitions", detectRepetitions(words))

\* an omitted second argument is the default []
CallAnalyzeVolumePatterns ==
    Return("analyzeVolumePatterns",
           analyzeVolumePatterns(volumeHistory,
                                 IF IsDefined(words) THEN words ELSE Some(<<>>)))

\* words?.length > 0 ? generateStutteringReport(words) : null
CallGenerateStutteringReport ==
    /\ call = "generatePerformanceReport"
    /\ result = Undefined
    /\ stutteringReport = Undefined
    /\ IsDefined(words) /\ Len(Val(words)) > 0
    /\ stutteringReport' = Some(generateStutteringReport(words))
    /\ words' = wordsAfterStuttering("generateStutteringReport", words)
    /\ UNCHANGED <<scalars, volumeHistory, result, analyses>>

AnalysisInput ==
    [transcript |-> transcript, durationMs |-> durationMs,
     eyeContactPercentage |-> eyeContactPercentage, postureScore |-> postureScore,
     words |-> words, stutteringReport |-> stutteringReport,
     volumeHistory |-> volumeHistory]

CallGeneratePerformanceReport ==
    Return("generatePerformanceReport", generatePerformanceReport(AnalysisInput))

CallDetectAnalogies == Return("detectAnalogies", detectAnalogies(transcript))

CallDetectHedgingLanguage == Return("detectHedgingLanguage", detectHedgingLanguage(transcript))

CallAnalyzeRateVariability == Return("analyzeRateVariability", analyzeRateVariability(words))

CallDetectFrameworks == Return("detectFrameworks", detectFrameworks(transcript))

CallAnalyzePaceVariation == ReturnStuttering("analyzePaceVariation", analyzePaceVariation(words))

ReturnGenerateStutteringReport ==
    ReturnStuttering("generateStutteringReport", generateStutteringReport(words))

\* one analyzer call of generatePerformanceReport, whichever has not been made
RunAnalyzer ==
    /\ call = "analyzers"
    /\ result = Undefined
    /\ \E name \in Range(AnalysisNames) \ DOMAIN analyses :
          /\ analyses' = analyses @@ (name :> analysisOf(name, destructure(AnalysisInput)))
          /\ words' = wordsAfter(name, words)
          /\ volumeHistory' = volumeHistoryAfter(name, volumeHistory)
    /\ UNCHANGED <<scalars, stutteringReport, result>>

\* the rest of generatePerformanceReport, once every analyzer has returned
AssembleReport ==
    /\ call = "analyzers"
    /\ result = Undefined
    /\ DOMAIN analyses = Range(AnalysisNames)
    /\ result' = Some(reportFrom(AnalysisInput, analyses))
    /\ stutteringReport' = stutteringReportAfter(stutteringReport)
    /\ UNCHANGED <<scalars, words, volumeHistory, analyses>>

Next ==
    \/ CallDetectFillerWords
    \/ CallAnalyzeStrategicPauses
    \/ CallDetectBlocks
    \/ CallDetectRepetitions
    \/ CallAnalyzeVolumePatterns
    \/ CallGenerateStutteringReport
    \/ CallGeneratePerformanceReport
    \/ RunAnalyzer
    \/ AssembleReport
    \/ CallDetectAnalogies
    \/ CallDetectHedgingLanguage
    \/ CallAnalyzeRateVariability
    \/ CallDetectFrameworks
    \/ CallAnalyzePaceVariation
    \/ ReturnGenerateStutteringReport

Spec == Init /\ [][Next]_vars

\* one exported function at a time
SpecDetectFillerWords == InitDetectFillerWords /\ [][CallDetectFillerWords]_vars

SpecAnalyzeStrategicPauses ==
    InitAnalyzeStrategicPauses /\ [][CallAnalyzeStrategicPauses]_vars

SpecDetectBlocks == InitDetectBlocks /\ [][CallDetectBlocks]_vars

SpecDetectRepetitions == InitDetectRepetitions /\ [][CallDetectRepetitions]_vars

SpecAnalyzeVolumePatterns == InitAnalyzeVolumePatterns /\ [][CallAnalyzeVolumePatterns]_vars

SpecGeneratePerformanceReport ==
    InitGeneratePerformanceReport
    /\ [][CallGenerateStutteringReport \/ CallGeneratePerformanceReport]_vars

SpecDetectAnalogies == InitDetectAnalogies /\ [][CallDetectAnalogies]_vars

SpecDetectHedgingLanguage == InitDetectHedgingLanguage /\ [][CallDetectHedgingLanguage]_vars

SpecAnalyzeRateVariability == InitAnalyzeRateVariability /\ [][CallAnalyzeRateVariability]_vars

SpecDetectFrameworks == InitDetectFrameworks /\ [][CallDetectFrameworks]_vars

SpecAnalyzePaceVariation == InitAnalyzePaceVariation /\ [][CallAnalyzePaceVariation]_vars

SpecGenerateStutteringReport == 
    InitGenerateStutteringReport /\ [][ReturnGenerateStutteringReport]_vars

\* the analyzer calls of generatePerformanceReport in any order
SpecAnalyzers == InitAnalyzers /\ [][RunAnalyzer \/ AssembleReport]_vars

(***************************************************************************)
(* The properties.  Times are in milliseconds, so 0.3 s, 0.5 s, 0.8 s,     *)
(* 1.0 s and 4.0 s read 300, 500, 800, 1000 and 4000.  Scores are computed *)
(* in exact arithmetic; NaN stands for the JavaScript NaN.                 *)
(***************************************************************************)
Returned(fn) == call = fn /\ IsDefined(result)

\* the words the call was given, [] when there are none
GivenWords == IF IsDefined(words) THEN Val(words) ELSE <<>>

\* o = Math.round(n / d) for n >= 0, without redoing the rounding
RoundsTo(o, n, d) == 2 * d * o - d <= 2 * n /\ 2 * n < 2 * d * o + d

\* the ten scores of a report
ReportScores(r) ==
    << r.habits.delivery.pauses.pauseScore,
       r.habits.delivery.declarative.declarativeScore,
       r.habits.delivery.rate.variabilityScore,
       r.habits.vocal.volume.volumeScore,
       r.habits.cognitive.thoughtCompletion.completionScore,
       r.habits.cognitive.frameworks.frameworkScore,
       r.habits.cognitive.analogies.analogyScore,
       r.summary.habitsScore,
       r.summary.overallScore,
       r.summary.fluencyScore >>

\* C1: for every valid input (word timings in order with start <= end, volume
\* levels, eye contact and posture in 0..100, durationMs >= 0, the stuttering
\* report absent or the one generateStutteringReport produced) each of
\* pauseScore, declarativeScore, variabilityScore, volumeScore, completionScore,
\* frameworkScore, analogyScore, habitsScore, overallScore and fluencyScore of
\* the report lies in [0, 100].
C1_ScoresInRange ==
    Returned("generatePerformanceReport") =>
        \A k \in 1..10 : ReportScores(Val(result))[k] \in 0..100

\* C3: the recommendations of every report generatePerformanceReport returns
\* are at most 8 and at least 1 (for every input, so also whenever an analyzer
\* has non-default input).
C3_RecommendationsBounded ==
    Returned("generatePerformanceReport") =>
        Len(Val(result).recommendations) \in 1..8

\* C3: a report of 8 recommendations whose posture advice, the last of the
\* base recommendations, was cut off
C3_Witness ==
    /\ Returned("generatePerformanceReport")
    /\ postureScore < 70
    /\ Len(Val(result).recommendations) = 8
    /\ Val(result).recommendations[8].text
           # "Sit up straight and keep your shoulders back for a more confident presence."

\* the adjacent-word gaps of at least 0.8 s and under 4.0 s
StrategicGaps(ws) == {i \in 2..Len(ws) : GapBefore(ws, i) >= 800 /\ GapBefore(ws, i) < 4000}

\* C4 as stated: analyzeStrategicPauses counts as strategic every adjacent-word
\* gap g with 0.8 <= g < 4.0 of the words it is given, the two-word sequence
\* 0 - 0.2 s, 1.5 - 1.7 s included (strategicPauses = 1).
C4_EveryStrategicGapCounted ==
    Returned("analyzeStrategicPauses") =>
        Val(result).strategicPauses = Cardinality(StrategicGaps(GivenWords))

\* C4: given at least 5 words, analyzeStrategicPauses counts as strategic
\* exactly the adjacent-word gaps g with 0.8 <= g < 4.0, and a listed pause has
\* type "strategic" exactly when its gap is one of them; given fewer than 5
\* words, or none, it reports no pause at all (strategicPauses = 0).
C4_StrategicGapsFromFiveWords ==
    Returned("analyzeStrategicPauses") =>
        LET ws == GivenWords
            r == Val(result)
        IN  IF Len(ws) >= 5
            THEN /\ r.strategicPauses = Cardinality(StrategicGaps(ws))
                 /\ \A k \in 1..Len(r.pauseDistribution) :
                        \E i \in 2..Len(ws) :
                            /\ r.pauseDistribution[k].timestamp = ws[i - 1].end
                            /\ (r.pauseDistribution[k].type = "strategic")
                                   <=> (i \in StrategicGaps(ws))
            ELSE r.strategicPauses = 0 /\ r.totalPauses = 0 /\ r.pauseDistribution = <<>>

\* C4: six words with gaps of 0.8 s and 3.999 s, both counted, and gaps of
\* 0.799 s and 4.0 s, neither counted
C4_Witness ==
    /\ Returned("analyzeStrategicPauses")
    /\ Len(GivenWords) = 6
    /\ {GapBefore(GivenWords, i) : i \in 2..6} = {799, 800, 3999, 4000}
    /\ Val(result).strategicPauses = Cardinality(StrategicGaps(GivenWords))
    /\ Val(result).strategicPauses \in {2, 3}

NormalizedTokens(ws) == Map(ws, LAMBDA w : normalizeWord(w.word))

\* the first indices of the maximal runs of two or more equal tokens
RunStarts(toks) ==
    SelectSeq(Indices(Len(toks)),
              LAMBDA i : /\ i < Len(toks) /\ toks[i + 1] = toks[i]
                         /\ i = 1 \/ toks[i - 1] # toks[i])

\* the length of the maximal run that starts at i
RunLength(toks, i) ==
    CHOOSE c \in 1..Len(toks) :
        /\ \A d \in 0..(c - 1) : i + d <= Len(toks) /\ toks[i + d] = toks[i]
        /\ i + c > Len(toks) \/ toks[i + c] # toks[i]

\* C6: detectRepetitions yields exactly one entry of type "word" for each
\* maximal run of two or more consecutive tokens that are identical after
\* lower-casing and punctuation stripping, in order, with count the run length
\* and timestamp the start of the run's first word, and no "word" entry for a
\* token that is not repeated.
C6_OneEntryPerRun ==
    Returned("detectRepetitions") =>
        \A toks \in {NormalizedTokens(GivenWords)} :
        \A starts \in {RunStarts(toks)} :
            LET entries == SelectSeq(Val(result).repetitions, LAMBDA e : e.type = "word")
            IN  /\ Len(entries) = Len(starts)
                /\ \A k \in 1..Len(starts) :
                       entries[k] = [word |-> toks[starts[k]],
                                     count |-> RunLength(toks, starts[k]),
                                     timestamp |-> GivenWords[starts[k]].start,
                                     type |-> "word"]

\* C6: [the, the, the, cat] gives the single entry {the, 3, word}
C6_Witness ==
    /\ Returned("detectRepetitions")
    /\ Map(GivenWords, LAMBDA w : w.word) = <<"the", "the", "the", "cat">>
    /\ Val(result).repetitions
           = << [word |-> "the", count |-> 3, timestamp |-> 0, type |-> "word"] >>

\* C7: analyzeVolumePatterns given no volume history, or fewer than 5 samples,
\* returns a result with volumeScore 50, avgVolume 0, hasTrailingOff false and
\* volumeVariation 0.
C7_FewSamplesDefault ==
    call = "analyzeVolumePatterns" /\ (Missing(volumeHistory) \/ Len(Val(volumeHistory)) < 5) =>
        \/ ~IsDefined(result)
        \/ /\ Val(result).volumeScore = 50
           /\ Val(result).avgVolume = 0
           /\ Val(result).hasTrailingOff = FALSE
           /\ Val(result).volumeVariation = 0

\* C7: four loud samples, and the default result returned for them
C7_Witness ==
    /\ Returned("analyzeVolumePatterns")
    /\ IsDefined(volumeHistory) /\ Len(Val(volumeHistory)) = 4
    /\ \A k \in 1..4 : Val(volumeHistory)[k].level = 100
    /\ Val(result).volumeScore = 50 /\ Val(result).avgVolume = 0

SingleWordFillers == {f \in Range(FILLER_WORDS) : " " \notin Range(Chars(f))}

\* the result of detectFillerWords is what the single-word rule gives when a
\* token is stripped of its punctuation anywhere, or at its end: nothing for an empty or undefined transcript;
\* otherwise positions holds the index of each token whose cleaned form is a
\* single-word filler, that filler's occurrence count is the number of such
\* tokens, a filler no token matches has no occurrence, and count is the sum
\* of the occurrence counts
SingleWordRule(anywhere) ==
    Returned("detectFillerWords") =>
        IF Falsy(transcript)
        THEN Val(result) = [count |-> 0, occurrences |-> <<>>, positions |-> <<>>]
        ELSE \A toks \in {Map(splitWs(toLowerCase(Chars(Val(transcript)))),
                              LAMBDA w : Str(cleanWordOf(w, anywhere)))} :
             LET r == Val(result)
                 tokensOf(f) == {i \in 1..Len(toks) : toks[i] = f}
                 entriesOf(f) == {k \in 1..Len(r.occurrences) : r.occurrences[k].word = f}
             IN  /\ r.positions
                        = Map(SelectSeq(Indices(Len(toks)),
                                        LAMBDA i : toks[i] \in SingleWordFillers),
                              LAMBDA i : i - 1)
                 /\ \A f \in SingleWordFillers :
                        /\ Cardinality(entriesOf(f)) = IF tokensOf(f) = {} THEN 0 ELSE 1
                        /\ \A k \in entriesOf(f) :
                               r.occurrences[k].count = Cardinality(tokensOf(f))
                 /\ r.count = SumSeq(Map(r.occurrences, LAMBDA o : o.count))

\* C8 as stated: detectFillerWords returns {count: 0, occurrences: [],
\* positions: []} for an empty or undefined transcript; otherwise each
\* whitespace-separated token that, lower-cased and with its trailing
\* punctuation stripped, equals a single-word filler adds 1 to that filler's
\* occurrence count and its index to positions, other tokens add nothing, and
\* count is the sum of the occurrence counts.
C8_TrailingPunctuationStripped == SingleWordRule(FALSE)

\* C8: the same with every . , ! ? ; : of the token stripped, wherever it
\* stands in the token.
C8_AllPunctuationStripped == SingleWordRule(TRUE)

\* C8: "um, u.m So": um twice, one of them written with an inner stop, so once
C8_Witness ==
    /\ Returned("detectFillerWords")
    /\ transcript = Some("um, u.m So")
    /\ Val(result).count = 3
    /\ Val(result).positions = <<0, 1, 2>>
    /\ Val(result).occurrences = << [word |-> "um", count |-> 2], [word |-> "so", count |-> 1] >>

\* C9: overallScore is the rounded weighted sum 0.15 clarityScore + 0.10
\* fluencyScore + 0.35 habitsScore + 0.10 min(100, wpm / 1.5) + 0.15
\* eyeContactPercentage + 0.15 postureScore, fluencyScore being that of the
\* stuttering report when one is supplied and 100 when it is absent (the
\* rounded sum of a NaN term is NaN).
C9_OverallScoreWeights ==
    Returned("generatePerformanceReport") =>
        LET r == Val(result)
            fluencyScore == IF IsDefined(stutteringReport)
                            THEN Val(stutteringReport).fluencyScore ELSE 100
        IN  /\ r.summary.fluencyScore = fluencyScore
            /\ IF IsNaN(fluencyScore) THEN IsNaN(r.summary.overallScore)
               ELSE RoundsTo(r.summary.overallScore,
                             45 * r.summary.clarityScore + 30 * fluencyScore
                             + 105 * r.summary.habitsScore + 10 * Min(300, 2 * r.summary.wpm)
                             + 45 * eyeContactPercentage + 45 * postureScore,
                             300)

\* C9: a report on a stuttering report of fluency under 100, at a pace under
\* 150 words a minute, every term of the sum positive
C9_Witness ==
    /\ Returned("generatePerformanceReport")
    /\ IsDefined(stutteringReport)
    /\ Val(stutteringReport).fluencyScore \in 1..99
    /\ Val(result).summary.wpm \in 1..149
    /\ Val(result).summary.clarityScore > 0
    /\ eyeContactPercentage = 100 /\ postureScore = 100
    /\ Val(result).summary.overallScore \in 1..99

\* C10: habitsScore is the rounded weighted sum of the seven habit scores with
\* weights pause 15%, rate variability 10%, declarative 15%, volume 15%,
\* thought completion 15%, framework 15%, analogy 15%; the weights sum to
\* 100%, so habitsScore is 100 when all seven are 100.
C10_HabitsScoreWeights ==
    /\ habitsScoreOf(100, 100, 100, 100, 100, 100, 100) = 100
    /\ Returned("generatePerformanceReport") =>
           LET s == ReportScores(Val(result))
           IN  RoundsTo(s[8],
                        15 * s[1] + 15 * s[2] + 10 * s[3] + 15 * s[4] + 15 * s[5]
                        + 15 * s[6] + 15 * s[7],
                        100)

\* C10: a report whose rate-variability score differs from the other six
C10_Witness ==
    /\ Returned("generatePerformanceReport")
    /\ LET s == ReportScores(Val(result))
       IN  /\ \A k \in {1, 2, 4, 5, 6, 7} : s[k] # s[3]
           /\ s[8] \in 1..99

SliceInputs ==
    { [transcript |-> t, durationMs |-> 6000, eyeContactPercentage |-> e,
       postureScore |-> p, words |-> w, stutteringReport |-> Undefined,
       volumeHistory |-> v] :
        t \in {Undefined, Some(ReportScript[1])},
        w \in {Undefined} \cup
              {Some(WordTimings(Cycle(d.tokens, MaxReportWords), Cycle(d.gaps, MaxReportWords))) :
                  d \in ReportDeliveries},
        v \in ReportVolumes, e \in ReportVisuals, p \in ReportVisuals }

\* the results in report r of the analyzers that are handed the transcript
TranscriptResults(r) ==
    <<r.speech.fillerWords, r.habits.delivery.declarative, r.habits.cognitive.thoughtCompletion,
      r.habits.cognitive.frameworks, r.habits.cognitive.analogies>>

\* the results in report r of the analyzers that are handed the words alone
WordsResults(r) == <<r.speech.pauses, r.habits.delivery.pauses, r.habits.delivery.rate>>

\* C12: each analyzer result of the report depends on its own slice of the
\* input only: the report of any other input with the same transcript has the
\* same filler, hedging, thought-completion, framework and analogy results,
\* whatever its words, volumeHistory and visual scores; the report of any other
\* input with the same words has the same pause and rate-variability results;
\* the report of any other input with the same volumeHistory has the same
\* volume results, whatever its words.
C12_ResultsDependOnOwnSlice ==
    call = "analyzers" /\ IsDefined(result) =>
        \A other \in SliceInputs :
            Let(generatePerformanceReport(other), LAMBDA o :
                /\ other.transcript = transcript =>
                       TranscriptResults(o) = TranscriptResults(Val(result))
                /\ other.words = words => WordsResults(o) = WordsResults(Val(result))
                /\ other.volumeHistory = volumeHistory =>
                       o.habits.vocal.volume = Val(result).habits.vocal.volume)

\* a report on a transcript with fillers and hedges, words with pauses and
\* enough volume samples to analyse; among the inputs compared are some with
\* the same samples and no words
C12_Witness ==
    /\ call = "analyzers" /\ IsDefined(result)
    /\ Val(result).habits.delivery.declarative.hedgingCount > 0
    /\ Val(result).speech.pauses.totalPauses > 0
    /\ Val(result).habits.vocal.volume.volumeScore # 50
    /\ \E other \in SliceInputs : other.volumeHistory = volumeHistory /\ other.words = Undefined

NeutralDefault(score, feedback) == score \in 50..70 /\ feedback # ""

\* C14 (as claimed): on missing or insufficient input every analyzer returns a
\* neutral default, a habit score of 50 to 70 with a non-empty feedback: the
\* transcript analyzers on an empty or undefined transcript, thought
\* completion on a transcript of fewer than 20 characters, the pause analysis
\* on fewer than 5 words, the rate analysis on fewer than 10 words and the
\* volume analysis on fewer than 5 samples.
C14_NeutralDefaults ==
    Returned("generatePerformanceReport") =>
        LET delivery == Val(result).habits.delivery
            volume == Val(result).habits.vocal.volume
            cognitive == Val(result).habits.cognitive
            samples == IF IsDefined(volumeHistory) THEN Len(Val(volumeHistory)) ELSE 0
        IN  /\ Falsy(transcript) =>
                  /\ NeutralDefault(delivery.declarative.declarativeScore,
                                    delivery.declarative.feedback)
                  /\ NeutralDefault(cognitive.frameworks.frameworkScore,
                                    cognitive.frameworks.feedback)
                  /\ NeutralDefault(cognitive.analogies.analogyScore,
                                    cognitive.analogies.feedback)
            /\ Falsy(transcript) \/ Len(Val(transcript)) < 20 =>
                  NeutralDefault(cognitive.thoughtCompletion.completionScore,
                                 cognitive.thoughtCompletion.feedback)
            /\ Len(GivenWords) < 5 =>
                  NeutralDefault(delivery.pauses.pauseScore, delivery.pauses.feedback)
            /\ Len(GivenWords) < 10 =>
                  NeutralDefault(delivery.rate.variabilityScore, delivery.rate.feedback)
            /\ samples < 5 => NeutralDefault(volume.volumeScore, volume.feedback)

\* the transcript given, "" when there is none
GivenTranscript == IF IsDefined(transcript) THEN Val(transcript) ELSE ""

\* the analogy score of the tiers 0 -> 50, 1 -> 70, 2 -> 85, 3..5 -> 95, more -> 90
AnalogyTier(analogyCount) ==
    IF analogyCount = 0 THEN 50
    ELSE IF analogyCount = 1 THEN 70
    ELSE IF analogyCount = 2 THEN 85
    ELSE IF analogyCount <= 5 THEN 95
    ELSE 90

\* C15 (as claimed): analogyScore is the tier of analogyCount, whatever the
\* transcript, and a transcript in which no analogy marker occurs, the empty
\* one included, gets analogyScore 50.
C15_AnalogyScoreTiers ==
    Returned("detectAnalogies") =>
        /\ Val(result).analogyScore = AnalogyTier(Val(result).analogyCount)
        /\ (\A k \in 1..Len(ANALOGY_MARKERS) :
                ~Includes(toLowerCase(Chars(GivenTranscript)), Chars(ANALOGY_MARKERS[k])))
               => Val(result).analogyScore = 50

\* the gaps between consecutive words of ws that are at least lo and below hi
GapsWithin(ws, lo, hi) ==
    {i \in 2..Len(ws) : ws[i].start - ws[i - 1].end >= lo /\ ws[i].start - ws[i - 1].end < hi}

\* C16: for fewer than 5 words pauseScore is 50; for 5 words or more it is 30
\* when no gap reaches 0.3 s and otherwise 70, plus 15 if strategicCount /
\* totalWords > 0.05, minus 5 if strategicCount / totalWords > 0.15, minus 10
\* for each too-long pause, clamped to 0..100.
C16_PauseScoreRule ==
    Returned("analyzeStrategicPauses") =>
        LET ws == GivenWords
            strategicCount == Cardinality(GapsWithin(ws, 800, 4000))
            tooLongCount == Cardinality({i \in 2..Len(ws) : ws[i].start - ws[i - 1].end >= 4000})
            raw == 70 + (IF 100 * strategicCount > 5 * Len(ws) THEN 15 ELSE 0)
                      - (IF 100 * strategicCount > 15 * Len(ws) THEN 5 ELSE 0)
                      - 10 * tooLongCount
        IN  Val(result).pauseScore =
                IF Len(ws) < 5 THEN 50
                ELSE IF \A i \in 2..Len(ws) : ws[i].start - ws[i - 1].end < 300 THEN 30
                ELSE IF raw < 0 THEN 0
                ELSE IF raw > 100 THEN 100
                ELSE raw

\* strategic pauses make more than 5% and no more than 15% of the words, and
\* there is a too-long pause: 70 + 15 - 10
C16_Witness ==
    /\ Returned("analyzeStrategicPauses")
    /\ Len(GivenWords) >= 5
    /\ 100 * Cardinality(GapsWithin(GivenWords, 800, 4000)) > 5 * Len(GivenWords)
    /\ 100 * Cardinality(GapsWithin(GivenWords, 800, 4000)) <= 15 * Len(GivenWords)
    /\ Val(result).tooLongPauses = 1
    /\ Val(result).pauseScore = 75

\* s with every run of white space made one space
CollapseSpaces(s) ==
    LET kept == SelectSeq(Indices(Len(s)), LAMBDA i : ~IsSpace(s[i]) \/ i = 1 \/ ~IsSpace(s[i - 1]))
    IN  [k \in 1..Len(kept) |-> IF IsSpace(s[kept[k]]) THEN " " ELSE s[kept[k]]]

\* the places of the lower-cased transcript where phrase stands, any white
\* space between its words
PhraseMatches(phrase) ==
    LET s == CollapseSpaces(toLowerCase(Chars(GivenTranscript)))
    IN  {i \in 1..Len(s) : StartsAt(s, Chars(phrase), i)}

\* the white-space separated words of the transcript, as split counts them:
\* one for a transcript with no word in it
TranscriptWordCount ==
    LET s == CollapseSpaces(trim(Chars(GivenTranscript)))
    IN  Cardinality({i \in 1..Len(s) : s[i] = " "}) + 1

\* C17: hedgingCount is the sum over the 16 hedging phrases of the matches of
\* each phrase by itself, so a span two phrases match counts for both, and
\* declarativeScore is 100 - (hedgingCount / wordCount) * 400 - hedgingCount * 3
\* rounded and clamped to 0..100, wordCount being the number of white-space
\* separated words of the transcript.
C17_HedgingCountAndScore ==
    Returned("detectHedgingLanguage") =>
        LET hedgingCount ==
                SumSeq([k \in 1..Len(HEDGING_PHRASES) |->
                           Cardinality(PhraseMatches(HEDGING_PHRASES[k]))])
            wordCount == TranscriptWordCount
        IN  /\ Len(HEDGING_PHRASES) = 16
            /\ Val(result).hedgingCount = hedgingCount
            /\ \E rounded \in -2000..100 :
                   /\ RoundsTo(rounded, 100 * wordCount - 400 * hedgingCount
                                        - 3 * hedgingCount * wordCount, wordCount)
                   /\ Val(result).declarativeScore = IF rounded < 0 THEN 0 ELSE rounded

\* "i think maybe" is counted for itself and for "maybe", and the score is
\* neither 0 nor 100
C17_Witness ==
    /\ Returned("detectHedgingLanguage")
    /\ PhraseMatches("i think maybe") # {}
    /\ Val(result).hedgingCount = 2
    /\ Val(result).declarativeScore \in 1..99

\* the words of ws that begin a phrase: the first, and each more than 0.4 s
\* after the word before it
PhraseStarts(ws) == {i \in 1..Len(ws) : i = 1 \/ ws[i].start - ws[i - 1].end > 400}

\* the last word of the phrase that word a begins
PhraseLast(ws, a) ==
    CHOOSE b \in a..Len(ws) :
        /\ \A i \in (a + 1)..b : ws[i].start - ws[i - 1].end <= 400
        /\ b = Len(ws) \/ ws[b + 1].start - ws[b].end > 400

\* n / d to the nearest integer, a half going up
Nearest(n, d) == (2 * n + d) \div (2 * d)

\* the phrases of ws: the number of words, the duration in milliseconds and the
\* rate in words per minute, to the nearest integer, of each
Phrases(ws) ==
    Map(SelectSeq(Indices(Len(ws)), LAMBDA i : i \in PhraseStarts(ws)), LAMBDA a :
        Let(PhraseLast(ws, a), LAMBDA b :
            [wordCount |-> b - a + 1,
             duration |-> ws[b].end - ws[a].start,
             wpm |-> IF ws[b].end > ws[a].start
                     THEN Nearest(60000 * (b - a + 1), ws[b].end - ws[a].start)
                     ELSE 0]))

\* the valid rates of ws, in the order of the phrases: those of the phrases of
\* at least 2 words and at least 0.2 s whose wpm is below 300
ValidRates(ws) ==
    Map(SelectSeq(Phrases(ws),
                  LAMBDA p : p.wordCount >= 2 /\ p.duration >= 200 /\ p.wpm < 300),
        LAMBDA p : p.wpm)

\* what the claim says of rates when it takes cv between 15 and 40 to be good
RateRule(ws, rates, good) ==
    IF Len(ws) < 10 THEN Val(result).variabilityScore = 50
    ELSE IF Len(rates) < 3
    THEN Val(result).variabilityScore = 70 /\ ~Val(result).hasGoodVariation
    ELSE /\ Val(result).hasGoodVariation = good
         /\ Val(result).variabilityScore = IF good THEN 95 ELSE 60

\* 15 <= cv <= 40 for cv = stdDev / mean * 100, mean and stdDev the mean and
\* the standard deviation of rates: with n rates of sum R and sum of squares Q,
\* cv = sqrt(n * Q - R * R) / R * 100
CvGoodExact(rates) ==
    LET n == Len(rates)
        R == SumSeq(rates)
        Q == SumSeq([k \in 1..n |-> rates[k] * rates[k]])
    IN  /\ R > 0
        /\ 10000 * (n * Q - R * R) >= 225 * R * R
        /\ 10000 * (n * Q - R * R) <= 1600 * R * R

\* 15 <= cv <= 40 for cv = stdDev / avgWpm * 100, avgWpm the mean of rates to
\* the nearest integer and stdDev the root of the mean square of the rates'
\* distances from avgWpm
CvGoodRounded(rates) ==
    LET n == Len(rates)
        avgWpm == Nearest(SumSeq(rates), n)
        V == SumSeq([k \in 1..n |-> (rates[k] - avgWpm) * (rates[k] - avgWpm)])
    IN  /\ avgWpm > 0
        /\ 10000 * V >= 225 * n * avgWpm * avgWpm
        /\ 10000 * V <= 1600 * n * avgWpm * avgWpm

\* C18 (as claimed): variabilityScore is 50 for fewer than 10 words; for 10
\* words or more it is 70 with hasGoodVariation false when fewer than 3 phrases
\* have a valid rate; otherwise hasGoodVariation is true exactly when
\* 15 <= cv <= 40, cv = stdDev / mean * 100 over the valid rates, and
\* variabilityScore is 95 when it is true and 60 when it is false.
C18_CvOfTheMean ==
    Returned("analyzeRateVariability") =>
        Let(ValidRates(GivenWords), LAMBDA rates :
            RateRule(GivenWords, rates, Len(rates) > 0 /\ CvGoodExact(rates)))

\* C18 (amended): the same, with cv = stdDev / avgWpm * 100 where avgWpm is the
\* mean of the valid rates rounded to the nearest integer and stdDev is the
\* root of the mean squared distance of the rates from avgWpm.
C18_CvOfTheRoundedMean ==
    Returned("analyzeRateVariability") =>
        Let(ValidRates(GivenWords), LAMBDA rates :
            RateRule(GivenWords, rates, Len(rates) > 0 /\ CvGoodRounded(rates)))

\* three valid rates whose cv is within 15..40 about the rounded mean and
\* above 40 about the mean itself
C18_Witness ==
    /\ Returned("analyzeRateVariability")
    /\ Len(GivenWords) >= 10
    /\ Val(result).variabilityScore = 95
    /\ Let(ValidRates(GivenWords), LAMBDA rates : Len(rates) >= 3 /\ ~CvGoodExact(rates))

\* the levels of the samples given
GivenLevels ==
    IF IsDefined(volumeHistory) THEN Map(Val(volumeHistory), LAMBDA v : v.level) ELSE <<>>

\* the mean of the first 80% of levels is above 15 and the mean of the last 20%
\* is below 0.6 times it
TrailsOff(levels) ==
    LET n == Len(levels)
        first == SubSeq(levels, 1, (8 * n) \div 10)
        last == SubSeq(levels, (8 * n) \div 10 + 1, n)
    IN  /\ SumSeq(first) > 15 * Len(first)
        /\ 10 * SumSeq(last) * Len(first) < 6 * SumSeq(first) * Len(last)

\* what the claim says of the volume score, avg being num / den: twice den
\* times the score before it is rounded and clamped, and that score in 0..100
VolumeRule(levels, num, den) ==
    LET base == IF num < 15 * den THEN 40 * den + num
                ELSE IF num >= 25 * den /\ num <= 60 * den THEN 90 * den
                ELSE IF num > 80 * den THEN 75 * den
                ELSE 70 * den
        raw == base - (IF TrailsOff(levels) THEN 15 * den ELSE 0)
                    - (IF Val(result).volumeVariation > 50 THEN 10 * den ELSE 0)
        rounded == Nearest(raw, den)
    IN  /\ Val(result).hasTrailingOff = TrailsOff(levels)
        /\ Val(result).volumeScore =
               IF rounded < 0 THEN 0 ELSE IF rounded > 100 THEN 100 ELSE rounded

\* C19 (as claimed): for 5 samples or more, avg being the mean level,
\* hasTrailingOff holds exactly when the mean of the first 80% of the samples is
\* above 15 and the mean of the last 20% is below 0.6 times it, and volumeScore
\* is base, less 15 if hasTrailingOff, less 10 if volumeVariation > 50, clamped
\* to 0..100, base being 40 + avg when avg < 15, 90 when 25 <= avg <= 60, 75
\* when avg > 80 and 70 otherwise.
C19_ScoreOfTheMean ==
    Returned("analyzeVolumePatterns") /\ Len(GivenLevels) >= 5 =>
        VolumeRule(GivenLevels, SumSeq(GivenLevels), Len(GivenLevels))

\* C19 (amended): the same, avg being avgVolume, the mean level rounded to the
\* nearest integer.
C19_ScoreOfTheRoundedMean ==
    Returned("analyzeVolumePatterns") /\ Len(GivenLevels) >= 5 =>
        VolumeRule(GivenLevels, Nearest(SumSeq(GivenLevels), Len(GivenLevels)), 1)

\* a mean level below 15 that rounds to 15: the score is 70, not 40 + avg
C19_Witness ==
    /\ Returned("analyzeVolumePatterns")
    /\ Len(GivenLevels) >= 5
    /\ SumSeq(GivenLevels) < 15 * Len(GivenLevels)
    /\ Val(result).avgVolume = 15
    /\ Val(result).volumeScore = 70

\* the parts of the framework, each with the word the feedback has for it
FrameworkParts == [context |-> "context", core |-> "core", connect |-> "connect"]

\* the parts with at least one marker in the lower-cased transcript
PartsFound ==
    LET lower == toLowerCase(Chars(GivenTranscript))
    IN  {part \in DOMAIN FrameworkParts :
            \E k \in 1..Len(FRAMEWORK_MARKERS[part]) : \E i \in 1..Len(lower) :
                StartsAt(lower, Chars(FRAMEWORK_MARKERS[part][k]), i)}

\* the parts the feedback names
PartsNamed ==
    {part \in DOMAIN FrameworkParts :
        \E i \in 1..Len(Val(result).feedback) :
            StartsAt(Chars(Val(result).feedback), Chars(FrameworkParts[part]), i)}

\* C20: frameworkScore is (partsFound / 3) * 100 rounded, partsFound being the
\* number of the three marker sets (context, core, connect) with at least one
\* marker in the lower-cased transcript, and when exactly two parts are found
\* the feedback names the part that is missing and no other.
C20_FrameworkScoreAndMissingPart ==
    Returned("detectFrameworks") =>
        /\ RoundsTo(Val(result).frameworkScore, 100 * Cardinality(PartsFound), 3)
        /\ Cardinality(PartsFound) = 2 =>
               PartsNamed = DOMAIN FrameworkParts \ PartsFound

\* context and connect are found, in a transcript with capitals, and the
\* feedback asks for the core point
C20_Witness ==
    /\ Returned("detectFrameworks")
    /\ PartsFound = {"context", "connect"}
    /\ Val(result).frameworkScore = 67
    /\ PartsNamed = {"core"}
    /\ GivenTranscript # Str(toLowerCase(Chars(GivenTranscript)))

\* the adjacent-word gaps of at least lo
GapsFrom(ws, lo) == {i \in 2..Len(ws) : GapBefore(ws, i) >= lo}

Span(ws) == ws[Len(ws)].end - ws[1].start

\* the label analyzePaceVariation gives a variation
ConsistencyLabel(variation) ==
    IF Less(40, variation) THEN "highly variable"
    ELSE IF Less(25, variation) THEN "somewhat variable"
    ELSE "consistent"

\* C23: analyzePaceVariation returns consistency "unknown" only when it is
\* given fewer than 5 words; for every sequence of 5 or more words the label is
\* "highly variable" if variation > 40, "somewhat variable" if variation > 25
\* and "consistent" otherwise.
C23_UnknownOnlyUnderFiveWords ==
    Returned("analyzePaceVariation") =>
        IF Len(GivenWords) < 5
        THEN Val(result).consistency = "unknown"
        ELSE Val(result).consistency = ConsistencyLabel(Val(result).variation)

\* C23: analyzePaceVariation returns consistency "unknown" with variation 0
\* when it is given fewer than 5 words or words that span less than two whole
\* 10 s windows (last end - first start < 20 s); for 5 or more words that span
\* at least 20 s the label is "highly variable" if variation > 40, "somewhat
\* variable" if variation > 25 and "consistent" otherwise.
C23_UnknownUnderTwoWindows ==
    Returned("analyzePaceVariation") =>
        IF Len(GivenWords) < 5 \/ Span(GivenWords) < 20000
        THEN Val(result).consistency = "unknown" /\ Val(result).variation = 0
        ELSE Val(result).consistency = ConsistencyLabel(Val(result).variation)

\* C23: five or more words within 20 s, called "unknown"
C23_Witness ==
    /\ Returned("analyzePaceVariation")
    /\ Len(GivenWords) >= 5
    /\ Span(GivenWords) < 20000
    /\ Val(result).consistency = "unknown"

\* C29: for 5 or more words, analyzePaceVariation buckets every word into
\* exactly one 10-second window counted from the first word's start, so the
\* wordCount values of the returned segments sum to the number of words given
\* (no word, in particular none in the final partial window, is left out).
C29_EveryWordInOneWindow ==
    Returned("analyzePaceVariation") /\ Len(GivenWords) >= 5 =>
        SumSeq(Map(Val(result).segments, LAMBDA g : g.wordCount)) = Len(GivenWords)

\* C21: generateStutteringReport computes fluencyScore = clamp(100 - 5 blockCount
\* - 10 severeBlockCount - 8 repetitionCount - p, 0, 100), blockCount and
\* severeBlockCount being the numbers of adjacent gaps of at least 0.5 s and
\* 1.0 s, with p = 15 if the pace variation is over 40, 8 if it is over 25 and
\* 0 otherwise, and sets overallSeverity to "significant" if fluencyScore < 50,
\* "moderate" if < 70, "mild" if < 85 and "minimal" otherwise (the score
\* falling with each block and each repetition counted).
C21_FluencyScoreRule ==
    Returned("generateStutteringReport") =>
        LET r == Val(result)
            blockCount == Cardinality(GapsFrom(GivenWords, 500))
            severeBlockCount == Cardinality(GapsFrom(GivenWords, 1000))
            p == IF Less(40, r.paceVariation.variation) THEN 15
                 ELSE IF Less(25, r.paceVariation.variation) THEN 8
                 ELSE 0
            score == Clamp(100 - 5 * blockCount - 10 * severeBlockCount
                           - 8 * r.repetitions.count - p)
        IN  /\ r.fluencyScore = score
            /\ r.overallSeverity = IF score < 50 THEN "significant"
                                   ELSE IF score < 70 THEN "moderate"
                                   ELSE IF score < 85 THEN "mild"
                                   ELSE "minimal"

\* the praise given when nothing is flagged
FallbackPraise ==
    << [text |-> "Excellent fluency! Keep up the great practice.", priority |-> "low"] >>

\* C24: the recommendations of generateStutteringReport are never empty and
\* never more than 4, for any word sequence (none and the empty one included);
\* when there is no block, no repetition, the pace is not highly variable and
\* the average pace is not under 100 words a minute, they are exactly the one
\* fallback praise.
C24_StutteringRecommendationsBounded ==
    Returned("generateStutteringReport") =>
        LET r == Val(result)
            fires == \/ GapsFrom(GivenWords, 500) # {}
                     \/ r.repetitions.count > 0
                     \/ r.paceVariation.consistency = "highly variable"
                     \/ Less(NumField(r.paceVariation, "averageWpm"), 100)
        IN  /\ Len(r.recommendations) \in 1..4
            /\ ~fires => r.recommendations = FallbackPraise

\* C24: words enough for an average pace, nothing flagged: the praise alone
C24_Witness ==
    /\ Returned("generateStutteringReport")
    /\ Len(GivenWords) >= 5
    /\ Val(result).paceVariation.averageWpm >= 100
    /\ Val(result).recommendations = FallbackPraise

\* the words of the phrases, one phrase after the other
RECURSIVE Flatten(_)
Flatten(phrases) == IF phrases = <<>> THEN <<>> ELSE Head(phrases) \o Flatten(Tail(phrases))

\* C25: for 10 or more words, the phrases of analyzeRateVariability partition
\* the words into maximal runs: the phrases one after the other are the words
\* in their order (each word in exactly one phrase), every gap between
\* consecutive words of a phrase is at most 0.4 s, and the gap between the
\* last word of a phrase and the first of the next is over 0.4 s; the segments
\* returned are rates of such phrases.
C25_PhrasesAreMaximalRuns ==
    Returned("analyzeRateVariability") /\ Len(GivenWords) >= 10 =>
        Let(phrasesFrom(GivenWords, 2, <<GivenWords[1]>>), LAMBDA phrases :
            /\ Flatten(phrases) = GivenWords
            /\ \A k \in 1..Len(phrases) :
                   /\ Len(phrases[k]) > 0
                   /\ \A j \in 2..Len(phrases[k]) : GapBefore(phrases[k], j) <= 400
            /\ \A k \in 2..Len(phrases) :
                   phrases[k][1].start - phrases[k - 1][Len(phrases[k - 1])].end > 400
            /\ \A g \in Range(Val(result).segments) :
                   \E k \in 1..Len(phrases) :
                       /\ phrases[k][1].start = g.startTime
                       /\ Len(phrases[k]) = g.wordCount)

\* C25: a gap of exactly 0.4 s inside a phrase and one of 0.401 s between two
\* phrases, three phrases or more having a rate
C25_Witness ==
    /\ Returned("analyzeRateVariability")
    /\ Len(GivenWords) >= 10
    /\ \E i, j \in 2..Len(GivenWords) :
           GapBefore(GivenWords, i) = 400 /\ GapBefore(GivenWords, j) = 401
    /\ Len(Val(result).segments) >= 3
    /\ \E g \in Range(Val(result).segments) : g.wordCount = 4

\* the habit-driven items of the report r
HabitItems(r) ==
    generateHabitsRecommendations(r.habits.delivery.pauses, r.habits.delivery.declarative,
                                  r.habits.delivery.rate, r.speech.fillerWords)

\* the items of the stuttering report supplied, none when there is none
StutteringItems ==
    IF IsDefined(stutteringReport) THEN Val(stutteringReport).recommendations ELSE <<>>

\* the base wpm, filler, eye-contact and posture items of the report r
BaseItems(r) ==
    generateRecommendations(r.summary.wpm, r.speech.fillerWords.count,
                            eyeContactPercentage, postureScore)

\* C26: the report's recommendations are the first min(8, n) items of the
\* habit-driven items, then the stuttering report's items, then the base
\* items, n being the number of them all: the order is kept and nothing is
\* dropped but by the cut at 8.
C26_RecommendationsInSourceOrder ==
    Returned("generatePerformanceReport") =>
        Let(Val(result), LAMBDA r :
        Let(HabitItems(r) \o StutteringItems \o BaseItems(r), LAMBDA all :
            /\ Len(r.recommendations) = Min(8, Len(all))
            /\ \A k \in 1..Len(r.recommendations) : r.recommendations[k] = all[k]))

\* C26: items of all three sources, more than 8 in all, the stuttering
\* report's first item right after the habit-driven ones
C26_Witness ==
    /\ Returned("generatePerformanceReport")
    /\ Let(Val(result), LAMBDA r :
           /\ Len(HabitItems(r)) >= 2
           /\ Len(StutteringItems) >= 2
           /\ Len(HabitItems(r)) + Len(StutteringItems) + Len(BaseItems(r)) > 8
           /\ r.recommendations[Len(HabitItems(r)) + 1] = StutteringItems[1]
           /\ r.recommendations[8] \in Range(BaseItems(r)))

\* the pauses analyzeStrategicPauses records of ws, as <<timestamp, duration>>:
\* one for each adjacent gap of at least 0.3 s, none under 5 words
RecordedPauses(ws) ==
    IF Len(ws) < 5 THEN {}
    ELSE {<<ws[i - 1].end, RoundCs(GapBefore(ws, i))>> : i \in GapsFrom(ws, 300)}

\* C27: pauseDistribution holds min(5, totalPauses) of the recorded pauses,
\* each once, in non-increasing order of duration, and no recorded pause left
\* out of it lasts longer than one that is in it.
C27_LongestFivePauses ==
    Returned("analyzeStrategicPauses") =>
        LET dist == Val(result).pauseDistribution
            recorded == RecordedPauses(GivenWords)
            shown == {<<dist[k].timestamp, dist[k].duration>> : k \in 1..Len(dist)}
        IN  /\ Val(result).totalPauses = Cardinality(recorded)
            /\ Len(dist) = Min(5, Val(result).totalPauses)
            /\ shown \subseteq recorded
            /\ Cardinality(shown) = Len(dist)
            /\ \A k \in 2..Len(dist) : dist[k - 1].duration >= dist[k].duration
            /\ \A p \in recorded \ shown : \A q \in shown : p[2] <= q[2]

\* C27: more than five pauses, a later one put before an earlier, shorter
\* one, and a still shorter one left out
C27_Witness ==
    /\ Returned("analyzeStrategicPauses")
    /\ Val(result).totalPauses > 5
    /\ LET dist == Val(result).pauseDistribution
       IN  /\ Len(dist) = 5
           /\ dist[1].duration > dist[5].duration
           /\ \E k \in 2..5 : dist[k - 1].timestamp > dist[k].timestamp
           /\ \E p \in RecordedPauses(GivenWords) : p[2] < dist[5].duration

\* the bucket of a gap of at least 0.3 s
PauseType(gap) == IF gap >= 4000 THEN "long" ELSE IF gap >= 800 THEN "strategic" ELSE "short"

\* C28: for 5 or more words, analyzeStrategicPauses records a pause exactly for
\* the adjacent gaps of at least 0.3 s and counts each in exactly one bucket
\* (short under 0.8 s, strategic under 4.0 s, too long from 4.0 s), so
\* totalPauses = shortPauses + strategicPauses + tooLongPauses, and the type of
\* each pause is that of the bucket of its gap.
C28_EachPauseInOneBucket ==
    Returned("analyzeStrategicPauses") /\ Len(GivenWords) >= 5 =>
        LET ws == GivenWords
            r == Val(result)
        IN  /\ r.totalPauses = Cardinality(GapsFrom(ws, 300))
            /\ r.shortPauses = Cardinality(GapsWithin(ws, 300, 800))
            /\ r.strategicPauses = Cardinality(GapsWithin(ws, 800, 4000))
            /\ r.tooLongPauses = Cardinality(GapsFrom(ws, 4000))
            /\ r.totalPauses = r.shortPauses + r.strategicPauses + r.tooLongPauses
            /\ \A k \in 1..Len(r.pauseDistribution) :
                   \E i \in GapsFrom(ws, 300) :
                       /\ ws[i - 1].end = r.pauseDistribution[k].timestamp
                       /\ r.pauseDistribution[k].type = PauseType(GapBefore(ws, i))

\* C28: pauses of all three kinds, and a gap under 0.3 s that is none
C28_Witness ==
    /\ Returned("analyzeStrategicPauses")
    /\ Len(GivenWords) >= 5
    /\ Val(result).shortPauses > 0
    /\ Val(result).strategicPauses > 0
    /\ Val(result).tooLongPauses > 0
    /\ Val(result).totalPauses < Len(GivenWords) - 1
    /\ {Val(result).pauseDistribution[k].type : k \in 1..Len(Val(result).pauseDistribution)}
           = {"short", "strategic", "long"}

\* the feedback texts of analyzeRateVariability
RateFeedbacks ==
    { "Not enough data for rate analysis",
      "Try speaking in longer phrases to establish flow.",
      "Your pace is very steady. Try slowing down for emphasis.",
      "Pace is erratic. Aim for smoother flow between phrases.",
      "Excellent pace variety! You use speed changes to highlight ideas." }

\* the recommendations of the report r that carry a rate feedback
RateItems(r) == SelectSeq(r.recommendations, LAMBDA x : x.text \in RateFeedbacks)

\* C30: generatePerformanceReport gives a rate-variability recommendation only
\* when variabilityScore < 60; variabilityScore being one of 50, 60, 70 and 95,
\* a report on 10 or more words has none, and the only one ever given carries
\* the feedback of the fewer-than-10-words default.
C30_RateItemOnlyForTheDefault ==
    Returned("generatePerformanceReport") =>
        Let(Val(result), LAMBDA r :
            /\ r.habits.delivery.rate.variabilityScore \in {50, 60, 70, 95}
            /\ RateItems(r) # <<>> => r.habits.delivery.rate.variabilityScore < 60
            /\ Len(GivenWords) >= 10 => RateItems(r) = <<>>
            /\ \A k \in 1..Len(RateItems(r)) :
                   /\ RateItems(r)[k].text = "Not enough data for rate analysis"
                   /\ Len(GivenWords) < 10)

\* C30: ten words or more whose rates vary too little or too much: a
\* variabilityScore of 60 and no rate item
C30_Witness ==
    /\ Returned("generatePerformanceReport")
    /\ Len(GivenWords) >= 10
    /\ Val(result).habits.delivery.rate.variabilityScore = 60
    /\ RateItems(Val(result)) = <<>>
====
